---- MODULE Spec2Model ----
\* A model of the wiggler tool window (src/ui/qwiggler.py): the selection
\* tree, the generated rig (joints, tip joints, bone dynamics nodes) in the
\* host scene, the simulate button and the bake procedure.
EXTENDS Integers, Sequences, FiniteSets, TLC

\* ---------------------------------------------------------------- bounds
\* Number of controls (transforms) the host scene holds.
MaxCtl == 2
\* Largest frame the bake range spin boxes are set to.
MaxTime == 2
\* Largest value of the step spin box.
MaxStep == 2
\* Largest number of items of a tree widget handed to walkTreeWidgetItems.
MaxItems == 4
\* Largest number of changes the user makes to property widgets and to the
\* attributes of simulation nodes.
MaxEdits == 1
\* Largest number of name dialogs one click on the create button opens.
MaxDialogs == 2

Controls == 1..MaxCtl

\* The empty whatsThis string of a tree column: no reference.
NoRef == 0

\* Names for the objects the tool generates. A Maya UUID is fresh; the model
\* takes the smallest name that no live object and no tree entry uses.
Ids == 1..(3 * MaxItems + 2)

VARIABLES
    tree,       \* selectionTreeWidget: items in creation order
    objs,       \* generated objects alive in the scene: id -> record
    simulate,   \* simulatePushButton.isChecked()
    cascade,    \* host semantics of delete(): children of a DAG node go with it
    alive,      \* the controls the host scene still holds
    pc,         \* position inside on_bakePushButton_clicked
    startTime,  \* startTimeSpinBox / endTimeSpinBox / stepSpinBox as read by the bake
    endTime,
    step,
    cache,      \* bakeDynamics: the transform cache
    sampled,    \* worldMatrix queries of the bake, in order
    written,    \* setWorldMatrix calls of the bake, in order
    log,        \* creations, deletions and detachments of the handler that ran last
    warning,    \* title of the QMessageBox.warning the last handler showed, or ""
    error,      \* what the last handler logged or raised, or ""
    walkArgs,   \* walkTreeWidgetItems: the items it is called with
    yielded,    \* walkTreeWidgetItems: the items it has yielded, in order
    widgets,    \* the property widgets: whatsThis -> value and display
    edits,      \* changes the user has made to property widgets and node attributes
    instance,   \* QWiggler.getInstance(): "None", or a window "Valid" or "Invalid"
    _selection, \* self._selection: the scene selection as last read
    _callbackIds, \* self._callbackIds: the ids of the callbacks the window registered
    hostCallbacks, \* the callbacks the host has registered: id and event
    _ground,    \* self._ground: the ground plane, or NoRef
    groundChecked, \* groundCheckBox.isChecked()
    followRestPose, \* followRestPoseCheckBox.isChecked()
    directory,  \* the files of the presets directory: name -> contents, read-only
    _presets,   \* self._presets: name -> preset, as last loaded
    currentText, \* presetsComboBox.currentText()
    caseSensitive \* the file system of the presets directory tells "a" from "A"

vars == <<tree, objs, simulate, cascade, alive, pc, startTime, endTime, step,
          cache, sampled, written, log, warning, error, walkArgs, yielded,
          widgets, edits, instance, _selection, _callbackIds, hostCallbacks,
          _ground, groundChecked,
          followRestPose,
          directory, _presets, currentText, caseSensitive>>

\* ------------------------------------------------------- sequences, tree
Reverse(s) == [i \in 1..Len(s) |-> s[Len(s) + 1 - i]]

Range(s) == {s[i] : i \in 1..Len(s)}

IdxSeq(n) == [i \in 1..n |-> i]

IndexOf(s, x) == CHOOSE i \in 1..Len(s) : s[i] = x

\* All sequences without repetition over the set S.
RECURSIVE DistinctSeqs(_)
DistinctSeqs(S) ==
    {<<>>} \cup UNION {{<<x>> \o t : t \in DistinctSeqs(S \ {x})} : x \in S}

\* A new QTreeWidgetItem for a control: only the CONTROL column is set.
NewItem(control, parent) ==
    [control |-> control, parent |-> parent,
     joint |-> NoRef, tip |-> NoRef, dyn |-> NoRef]

\* treeWidgetItem.child(i) for i in range(childCount()); p = 0 gives the
\* top-level items.
Children(t, p) == SelectSeq(IdxSeq(Len(t)), LAMBDA i : t[i].parent = p)

\* queue = deque(xs) where the code extends the queue.
ExtendLeftDropQueue(queue, xs) == Reverse(xs)

\* deque.extend(xs) where the code has extendleft.
ExtendRight(queue, xs) == queue \o xs

\* deque.extendleft(xs): each element is pushed on the left in turn.
ExtendLeft(queue, xs) == Reverse(xs) \o queue

RECURSIVE WalkQueue(_, _)
WalkQueue(t, queue) ==
    IF queue = <<>> THEN <<>>
    ELSE LET treeWidgetItem == Head(queue)
         IN  <<treeWidgetItem>> \o
             WalkQueue(t, ExtendLeft(Tail(queue), Reverse(Children(t, treeWidgetItem))))

walkTreeWidgetItems(t, topLevelItems) ==
    LET hasItems == Len(topLevelItems) > 0
        items == IF ~hasItems THEN Children(t, 0) ELSE topLevelItems
    IN  WalkQueue(t, items)

\* The items below a set of items, the set included.
RECURSIVE ItemDescendants(_, _)
ItemDescendants(t, S) ==
    LET more == {i \in 1..Len(t) : t[i].parent \in S} \ S
    IN  IF more = {} THEN S ELSE ItemDescendants(t, S \cup more)

\* The tree widget without the items of R: an item taken from its parent
\* takes its children along.
TakeItems(t, R) ==
    LET gone == ItemDescendants(t, R)
        keep == SelectSeq(IdxSeq(Len(t)), LAMBDA i : i \notin gone)
    IN  [k \in 1..Len(keep) |->
            [t[keep[k]] EXCEPT !.parent = IF @ = 0 THEN 0 ELSE IndexOf(keep, @)]]

\* ---------------------------------------------------------- host scene
\* mpynode.MPyNode(uuid): the node, or None when the uuid resolves to nothing.
Resolve(o, ref) == IF ref \in DOMAIN o THEN ref ELSE NoRef

\* mpynode.MPyNode(controlUUID): None once the control has left the scene.
ResolveControl(control) == IF control \in alive THEN control ELSE NoRef

Referenced(t) == UNION {{t[i].joint, t[i].tip, t[i].dyn} : i \in 1..Len(t)}

NewId(w) ==
    LET free == Ids \ (DOMAIN w.objs \cup Referenced(w.tree) \cup {w.ground})
    IN  CHOOSE x \in free : \A y \in free : x <= y

RECURSIVE DagDescendants(_, _)
DagDescendants(o, S) ==
    LET more == {x \in DOMAIN o : o[x].parent \in S} \ S
    IN  IF more = {} THEN S ELSE DagDescendants(o, S \cup more)

\* infinitePlaneCollider of a simulation node: no element (NoRef), the
\* element 0 fed by the world matrix of a plane (its id), or the element 0
\* left without a source.
Unconnected == -1

\* node.delete(): the node leaves the scene, with the DAG nodes below it when
\* the host deletes children along; connections to a deleted node are gone,
\* the array element a connection made stays.
DeleteNode(o, id) ==
    LET dead == IF cascade THEN DagDescendants(o, {id}) ELSE {id}
        unlink(x) == IF x \in dead THEN NoRef ELSE x
    IN  [x \in DOMAIN o \ dead |->
            [o[x] EXCEPT !.parent = unlink(@), !.start = unlink(@), !.end = unlink(@),
                         !.plane = IF @ \in dead THEN Unconnected ELSE @]]

\* scene.createNode(...)
CreateNode(o, id, kind, parent, start, end) ==
    [x \in DOMAIN o \cup {id} |->
        IF x = id THEN [kind |-> kind, parent |-> parent, start |-> start, end |-> end,
                        attrs |-> <<>>, plane |-> NoRef, rotationOffset |-> NoRef]
        ELSE o[x]]

Event(op, kind, control) == [op |-> op, kind |-> kind, item |-> control]

\* The state a method works on: the tree, the scene, the simulate button,
\* the events so far, the warning shown and how the method ended ("ok",
\* "abort" after log.error and return, "raise" after an exception).
World ==
    [tree |-> tree, objs |-> objs, simulate |-> simulate, widgets |-> widgets,
     selection |-> _selection, ground |-> _ground, groundChecked |-> groundChecked,
     followRestPose |-> followRestPose,
     callbackIds |-> _callbackIds, hostCallbacks |-> hostCallbacks,
     directory |-> directory, presets |-> _presets, currentText |-> currentText,
     caseSensitive |-> caseSensitive,
     log |-> <<>>, status |-> "ok", warning |-> ""]

\* ------------------------------------------------------- removeDynamics
\* om.MUuid(whatsThis).valid()
HasRef(ref) == ref # NoRef

\* The block with the reference cleared only when the node was found.
RemoveRefWhenFound(w, i, col) ==
    LET ref == w.tree[i][col]
        node == Resolve(w.objs, ref)
    IN  IF HasRef(ref) /\ node # NoRef
        THEN [w EXCEPT !.objs = DeleteNode(@, node),
                       !.log = Append(@, Event("delete", col, w.tree[i].control)),
                       !.tree[i][col] = NoRef]
        ELSE w

\* The block without its two guards: delete() on whatever the column names.
RemoveRefUnguarded(w, i, col) ==
    LET node == Resolve(w.objs, w.tree[i][col])
    IN  IF node = NoRef THEN [w EXCEPT !.status = "raise"]
        ELSE [w EXCEPT !.objs = DeleteNode(@, node),
                       !.log = Append(@, Event("delete", col, w.tree[i].control)),
                       !.tree[i][col] = NoRef]

\* One of the three blocks of removeDynamics, for the column `col`.
RemoveRef(w, i, col) ==
    LET ref == w.tree[i][col]
        node == Resolve(w.objs, ref)
        control == w.tree[i].control
        events == IF col = "joint"
                  THEN <<Event("removeConstraints", col, control), Event("delete", col, control)>>
                  ELSE <<Event("delete", col, control)>>
        w1 == IF node # NoRef
              THEN [w EXCEPT !.objs = DeleteNode(@, node), !.log = @ \o events]
              ELSE w
    IN  IF HasRef(ref) THEN [w1 EXCEPT !.tree[i][col] = NoRef] ELSE w

\* The three blocks of removeDynamics in the order joint, tip joint, node.
RemoveItemDynamicsJointFirst(w, i) ==
    RemoveRef(RemoveRef(RemoveRef(w, i, "joint"), i, "tip"), i, "dyn")

\* The blocks of the node and of the joint, the tip joint left alone.
RemoveItemDynamicsKeepTip(w, i) ==
    RemoveRef(RemoveRef(w, i, "dyn"), i, "joint")

RemoveItemDynamics(w, i) ==
    RemoveRef(RemoveRef(RemoveRef(w, i, "dyn"), i, "tip"), i, "joint")

RECURSIVE RemoveEach(_, _)
RemoveEach(w, items) ==
    IF items = <<>> \/ w.status # "ok" THEN w
    ELSE RemoveEach(RemoveItemDynamics(w, Head(items)), Tail(items))

removeDynamics(w, treeWidgetItems) ==
    LET items == IF treeWidgetItems = <<>>
                 THEN walkTreeWidgetItems(w.tree, <<>>)
                 ELSE treeWidgetItems
    IN  RemoveEach(w, items)

\* The pairs a loop over `outer` with a loop over `inner` inside visits.
RECURSIVE Nested(_, _)
Nested(outer, inner) ==
    IF outer = <<>> THEN <<>>
    ELSE [k \in 1..Len(inner) |-> <<Head(outer), inner[k]>>] \o Nested(Tail(outer), inner)

\* The DYNAMICS column of every item, resolved or not.
iterBoneDynamicsUnfiltered(w) ==
    LET items == walkTreeWidgetItems(w.tree, <<>>)
    IN  [k \in 1..Len(items) |-> w.tree[items[k]].dyn]

\* list(self.iterBoneDynamics()): the dynamics nodes the tree resolves.
iterBoneDynamics(w) ==
    LET items == walkTreeWidgetItems(w.tree, <<>>)
        live(i) == HasRef(w.tree[i].dyn) /\ Resolve(w.objs, w.tree[i].dyn) # NoRef
        found == SelectSeq(items, live)
    IN  [k \in 1..Len(found) |-> w.tree[found[k]].dyn]

\* ------------------------------------------------- simulation properties
\* A property widget as __setup_ui__ makes it. The value of a
\* QDoubleSpinBox is held in hundredths (setDecimals(2)); the resetTime
\* QTimeSpinBox is a spin box of frames; the check state of the QCheckBox is
\* 0 (Unchecked), 1 (PartiallyChecked) or 2 (Checked).
PropertyWidget(whatsThis, class, minimum, maximum, value) ==
    [whatsThis |-> whatsThis, class |-> class,
     minimum |-> minimum, maximum |-> maximum, value |-> value]

overlapPropertyWidgets ==
    << PropertyWidget("damping", "QDoubleSpinBox", 0, 100, 10),
       PropertyWidget("elasticity", "QDoubleSpinBox", 0, 100000, 3000),
       PropertyWidget("stiffness", "QDoubleSpinBox", 0, 100, 10),
       PropertyWidget("mass", "QDoubleSpinBox", 1, 100000, 100),
       PropertyWidget("iterations", "QSpinBox", 1, 10, 5),
       PropertyWidget("resetTime", "QSpinBox", -9999999, 9999999, 0),
       PropertyWidget("gravityX", "QDoubleSpinBox", -999900, 999900, 0),
       PropertyWidget("gravityY", "QDoubleSpinBox", -999900, 999900, 0),
       PropertyWidget("gravityZ", "QDoubleSpinBox", -999900, 999900, 100),
       PropertyWidget("gravityMultiply", "QDoubleSpinBox", 0, 100, 100),
       PropertyWidget("angleLimit", "QDoubleSpinBox", 0, 36000, 6000),
       PropertyWidget("enableAngleLimit", "QCheckBox", 0, 2, 0) >>

Attributes == {overlapPropertyWidgets[k].whatsThis : k \in 1..Len(overlapPropertyWidgets)}

PropertyOf(whatsThis) ==
    CHOOSE p \in Range(overlapPropertyWidgets) : p.whatsThis = whatsThis

IsSpinBox(p) == p.class \in {"QSpinBox", "QDoubleSpinBox"}

IsCheckBox(p) == p.class = "QCheckBox"

\* The widgets after __setup_ui__: each shows its value, the angle limit
\* spin box is disabled, the check box has two states.
InitialWidgets ==
    [a \in Attributes |->
        [value |-> PropertyOf(a).value, mixed |-> FALSE, tristate |-> FALSE,
         enabled |-> a # "angleLimit"]]

\* widget.value() of a spin box, widget.isChecked() of the check box (a
\* partially checked box is checked).
WidgetValue(ws, whatsThis) ==
    IF IsCheckBox(PropertyOf(whatsThis)) THEN ws[whatsThis].value # 0
    ELSE ws[whatsThis].value

\* The attributes of a boneDynamicsNode right after createNode.
NewNodeAttrs ==
    [a \in Attributes |->
        IF IsCheckBox(PropertyOf(a)) THEN FALSE ELSE PropertyOf(a).value]

\* boneDynamics.getAttr(name), boneDynamics.setAttr(name, value)
GetAttr(o, node, attribute) == o[node].attrs[attribute]

SetAttr(o, node, attribute, value) == [o EXCEPT ![node].attrs[attribute] = value]

\* The loops of pushSimulationProperties over <<node, whatsThis>> pairs.
RECURSIVE PushEach(_, _)
PushEach(w, visits) ==
    IF visits = <<>> THEN w
    ELSE LET boneDynamics == Head(visits)[1]
             attribute == Head(visits)[2]
         IN  PushEach([w EXCEPT !.objs = SetAttr(@, boneDynamics, attribute,
                                                 WidgetValue(w.widgets, attribute))],
                      Tail(visits))

AllWidgets == [k \in 1..Len(overlapPropertyWidgets) |-> overlapPropertyWidgets[k].whatsThis]

\* pushSimulationProperties writing to the first simulation node only.
pushSimulationPropertiesFirstNode(w, pushed) ==
    LET names == IF pushed = <<>> THEN AllWidgets ELSE pushed
        nodes == iterBoneDynamics(w)
    IN  PushEach(w, Nested(IF nodes = <<>> THEN <<>> ELSE <<Head(nodes)>>, names))

\* pushSimulationProperties(*widgets): widgets are named by their whatsThis.
pushSimulationProperties(w, pushed) ==
    LET names == IF pushed = <<>> THEN AllWidgets ELSE pushed
    IN  PushEach(w, Nested(iterBoneDynamics(w), names))

\* The valueChanged slots of the eleven spin boxes.
on_valueChanged(w, whatsThis) == pushSimulationProperties(w, <<whatsThis>>)

on_angleLimitCheckBox_stateChanged(w, state) ==
    pushSimulationProperties([w EXCEPT !.widgets["angleLimit"].enabled = (state # 0)],
                             <<"enableAngleLimit">>)

\* QAbstractSpinBox bounds the value by the minimum and the maximum.
Bound(value, minimum, maximum) ==
    IF value < minimum THEN minimum ELSE IF value > maximum THEN maximum ELSE value

\* QSpinBox.setValue storing the value as it is given.
setValueUnbounded(w, whatsThis, value) ==
    LET old == w.widgets[whatsThis].value
        w1 == [w EXCEPT !.widgets[whatsThis].value = value,
                        !.widgets[whatsThis].mixed = FALSE]
    IN  IF value # old THEN on_valueChanged(w1, whatsThis) ELSE w1

\* QSpinBox.setValue, QDoubleSpinBox.setValue: the line edit shows the new
\* value, and valueChanged is emitted when the value has changed.
setValue(w, whatsThis, value) ==
    LET p == PropertyOf(whatsThis)
        old == w.widgets[whatsThis].value
        new == Bound(value, p.minimum, p.maximum)
        w1 == [w EXCEPT !.widgets[whatsThis].value = new,
                        !.widgets[whatsThis].mixed = FALSE]
    IN  IF new # old THEN on_valueChanged(w1, whatsThis) ELSE w1

\* QCheckBox.setCheckState: PartiallyChecked makes the box tristate;
\* stateChanged is emitted when the state has changed.
setCheckState(w, whatsThis, state) ==
    LET old == w.widgets[whatsThis].value
        w1 == [w EXCEPT !.widgets[whatsThis].value = state,
                        !.widgets[whatsThis].tristate = (@ \/ state = 1)]
    IN  IF state # old THEN on_angleLimitCheckBox_stateChanged(w1, state) ELSE w1

\* QCheckBox.setChecked
setCheckBoxChecked(w, whatsThis, checked) ==
    setCheckState(w, whatsThis, IF checked THEN 2 ELSE 0)

\* QCheckBox.nextCheckState: a click of the user.
nextCheckState(w, whatsThis) ==
    LET state == w.widgets[whatsThis].value
    IN  IF w.widgets[whatsThis].tristate
        THEN setCheckState(w, whatsThis, (state + 1) % 3)
        ELSE setCheckState(w, whatsThis, IF state = 0 THEN 2 ELSE 0)

\* The body of the loop of pullSimulationProperties for the k-th widget.
PullWidget(w, boneDynamics, k) ==
    LET widget == overlapPropertyWidgets[k]
        whatsThis == widget.whatsThis
        values == {GetAttr(w.objs, boneDynamics[n], whatsThis) : n \in 1..Len(boneDynamics)}
        isIdentical == Cardinality(values) = 1
        first == CHOOSE v \in values : TRUE
    IN  IF IsSpinBox(widget)
        THEN (IF isIdentical THEN setValue(w, whatsThis, first)
              ELSE [w EXCEPT !.widgets[whatsThis].mixed = TRUE])
        ELSE IF IsCheckBox(widget)
        THEN (IF isIdentical THEN setCheckBoxChecked(w, whatsThis, first)
              ELSE setCheckState(w, whatsThis, 1))
        ELSE w

RECURSIVE PullEach(_, _, _)
PullEach(w, boneDynamics, k) ==
    IF k > Len(overlapPropertyWidgets) THEN w
    ELSE PullEach(PullWidget(w, boneDynamics, k), boneDynamics, k + 1)

pullSimulationProperties(w) ==
    LET boneDynamics == iterBoneDynamics(w)
        numBoneDynamics == Len(boneDynamics)
    IN  IF numBoneDynamics = 0 THEN w ELSE PullEach(w, boneDynamics, 1)

\* ---------------------------------------------------------------- presets
\* The five widgets dumpPreset reads and loadPreset sets.
CoreAttributes == <<"damping", "elasticity", "stiffness", "mass", "iterations">>

\* dumpPreset(): the values of the five spin boxes.
dumpPreset(ws) == [a \in Range(CoreAttributes) |-> ws[a].value]

\* A presets directory with the mandatory Default.json, writable.
DefaultOnly ==
    [name \in {"Default"} |->
        [preset |-> [a \in Range(CoreAttributes) |-> PropertyOf(a).value],
         readOnly |-> FALSE]]

\* The texts the user types into the name dialog of the create button.
PresetNames == {"", " ", "Default", "default", "Soft", "Soft!"}

\* stringutils.slugify(presetName): blanks at the ends and characters that
\* are no word characters are dropped.
slugify(text) ==
    CASE text = " " -> ""
      [] text = "Soft!" -> "Soft"
      [] OTHER -> text

\* stringutils.isNullOrEmpty(presetName)
isNullOrEmpty(text) == text = ""

\* The name a file system that does not tell "a" from "A" compares.
CaseFolded(name) ==
    CASE name = "Default" -> "default"
      [] name = "Soft" -> "soft"
      [] OTHER -> name

\* The files of the directory that the path of <name>.json opens.
FilesNamed(w, name) ==
    {n \in DOMAIN w.directory :
        IF w.caseSensitive THEN n = name ELSE CaseFolded(n) = CaseFolded(name)}

\* pathutils.isReadOnly(presetPath)
isReadOnly(w, name) == \E n \in FilesNamed(w, name) : w.directory[n].readOnly

\* invalidatePresets(): the files are loaded again, Default.json is moved to
\* the front when there is more than one file (index raises when it is not
\* there), and the combo box keeps its text when an item still has it and
\* takes the first item otherwise; its signals are blocked.
invalidatePresets(w) ==
    LET filenames == DOMAIN w.directory
        numFilenames == Cardinality(filenames)
        first == IF "Default" \in filenames THEN "Default"
                 ELSE CHOOSE n \in filenames : TRUE
    IN  IF numFilenames > 1 /\ "Default" \notin filenames
        THEN [w EXCEPT !.status = "raise"]
        ELSE [w EXCEPT !.presets = [n \in filenames |-> w.directory[n].preset],
                       !.currentText = IF @ \in filenames THEN @
                                       ELSE IF numFilenames > 0 THEN first
                                       ELSE ""]

\* loadPreset(preset): the five spin boxes take the values of the preset, a
\* missing key takes its default; each setValue runs the valueChanged slot.
RECURSIVE LoadEach(_, _, _)
LoadEach(w, preset, k) ==
    IF k > Len(CoreAttributes) THEN w
    ELSE LET a == CoreAttributes[k]
             default == CASE a = "damping" -> 10
                          [] a = "elasticity" -> 3000
                          [] a = "stiffness" -> 0
                          [] a = "mass" -> 100
                          [] a = "iterations" -> 5
             value == IF a \in DOMAIN preset THEN preset[a] ELSE default
         IN  LoadEach(setValue(w, a, value), preset, k + 1)

loadPreset(w, preset) == LoadEach(w, preset, 1)

on_presetsComboBox_currentTextChanged(w, text) ==
    IF text \in DOMAIN w.presets THEN loadPreset(w, w.presets[text]) ELSE w

\* open(presetPath, 'w+') and json.dump: a file the path names is
\* overwritten under the name it has, a new file is writable.
WriteFile(w, name, preset) ==
    LET found == FilesNamed(w, name)
        target == IF found = {} THEN name ELSE CHOOSE n \in found : TRUE
    IN  [n \in DOMAIN w.directory \cup {target} |->
            IF n = target THEN [preset |-> preset, readOnly |-> FALSE]
            ELSE w.directory[n]]

\* os.remove(presetPath)
RemoveFile(w, name) ==
    [n \in DOMAIN w.directory \ FilesNamed(w, name) |-> w.directory[n]]

\* exists or isEmpty (lines 2123-2126)
existsOrIsEmpty(w, presetName) ==
    presetName \in DOMAIN w.presets \/ isNullOrEmpty(presetName)

\* on_createPresetPushButton_clicked. Each answer is what the user gives
\* one name dialog (text, and response: Ok or dismissed) and, where the
\* name is turned down, the warning after it (retry: Ok clicks the button
\* again, which opens the next dialog).
RECURSIVE on_createPresetPushButton_clicked(_, _)
on_createPresetPushButton_clicked(w, answers) ==
    LET answer == Head(answers)
        presetName == slugify(answer.text)
    IN  IF ~answer.response
        THEN [w EXCEPT !.log = Append(@, Event("abort", "preset", answer.text))]
        ELSE IF existsOrIsEmpty(w, presetName)
        THEN LET w1 == [w EXCEPT !.warning = "Create New Preset",
                                 !.log = Append(@, Event("reject", "preset", presetName))]
             IN  IF answer.retry /\ Tail(answers) # <<>>
                 THEN on_createPresetPushButton_clicked(w1, Tail(answers))
                 ELSE w1
        ELSE IF isReadOnly(w, presetName)
        THEN [w EXCEPT !.status = "raise"]
        ELSE invalidatePresets(
                 [w EXCEPT !.directory = WriteFile(w, presetName, dumpPreset(w.widgets)),
                           !.log = Append(@, Event("write", "preset", presetName))])

\* on_deletePresetPushButton_clicked; response is the answer to the
\* question whether the preset is to be deleted.
on_deletePresetPushButton_clicked(w, response) ==
    LET presetName == w.currentText
        isDefault == presetName = "Default"
        isLocked == isReadOnly(w, presetName)
    IN  IF isDefault \/ isLocked
        THEN [w EXCEPT !.warning = "Delete Preset",
                       !.log = Append(@, Event("reject", "preset", presetName))]
        ELSE IF response
        THEN IF FilesNamed(w, presetName) = {}
             THEN [w EXCEPT !.warning = "Delete Preset", !.status = "raise"]
             ELSE invalidatePresets(
                      [w EXCEPT !.warning = "Delete Preset",
                                !.directory = RemoveFile(w, presetName),
                                !.log = Append(@, Event("remove", "preset", presetName))])
        ELSE [w EXCEPT !.warning = "Delete Preset",
                       !.log = Append(@, Event("abort", "preset", presetName))]

\* ------------------------------------------------------ ground collision
\* The simulation nodes of the list `nodes` with their plane collider set.
SetPlane(o, nodes, plane) ==
    [x \in DOMAIN o |-> IF x \in Range(nodes) THEN [o[x] EXCEPT !.plane = plane] ELSE o[x]]

\* addGroundCollision with the plane connected to no simulation node.
addGroundCollisionUnconnected(w) ==
    LET ground == NewId(w)
    IN  [w EXCEPT !.objs = CreateNode(@, ground, "ground", NoRef, NoRef, NoRef),
                  !.log = Append(@, Event("create", "ground", NoRef)),
                  !.ground = ground]

addGroundCollision(w) ==
    LET ground == NewId(w)
        w1 == [w EXCEPT !.objs = CreateNode(@, ground, "ground", NoRef, NoRef, NoRef),
                        !.log = Append(@, Event("create", "ground", NoRef))]
    IN  [w1 EXCEPT !.objs = SetPlane(@, iterBoneDynamics(w1), ground),
                   !.ground = ground]

removeGroundCollision(w) ==
    LET isAlive == Resolve(w.objs, w.ground) # NoRef
        w1 == IF isAlive
              THEN [w EXCEPT !.objs = DeleteNode(@, w.ground),
                             !.log = Append(@, Event("delete", "ground", NoRef)),
                             !.ground = NoRef]
              ELSE w
    IN  IF w.ground = NoRef THEN w
        ELSE [w1 EXCEPT !.objs = SetPlane(@, iterBoneDynamics(w1), NoRef)]

on_groundCheckBox_clicked(w, checked) ==
    IF checked THEN addGroundCollision(w) ELSE removeGroundCollision(w)

\* ---------------------------------------------------------- addDynamics
\* A build that never finds an existing joint.
HasJointNever(item) == FALSE

HasJoint(item) == HasRef(item.joint)

\* not stringutils.isNullOrEmpty(whatsThis(Column.DYNAMICS))
HasBoneDynamics(item) == item.dyn # NoRef

\* The first loop of addDynamics with every joint created under the world.
EnsureJointUnparented(w, i) ==
    LET item == w.tree[i]
        control == ResolveControl(item.control)
        joint == NewId(w)
    IN  IF control = NoRef
        THEN [w EXCEPT !.status = "abort",
                       !.log = Append(@, Event("error", "control", item.control))]
        ELSE IF HasJoint(item) THEN w
        ELSE [w EXCEPT !.objs = CreateNode(@, joint, "joint", NoRef, NoRef, NoRef),
                       !.tree[i].joint = joint,
                       !.log = Append(@, Event("create", "joint", item.control))]

\* The first loop of addDynamics going on to the next item, with no error
\* logged, when a control is not found.
EnsureJointSkipUnresolved(w, i) ==
    LET item == w.tree[i]
        isTopLevelItem == item.parent = 0
        parentJoint == IF isTopLevelItem THEN NoRef
                       ELSE Resolve(w.objs, w.tree[item.parent].joint)
        joint == NewId(w)
    IN  IF ResolveControl(item.control) = NoRef \/ HasJoint(item) THEN w
        ELSE [w EXCEPT !.objs = CreateNode(@, joint, "joint", parentJoint, NoRef, NoRef),
                       !.tree[i].joint = joint,
                       !.log = Append(@, Event("create", "joint", item.control))]

\* The first loop of addDynamics undoing its work before it gives up.
EnsureJointRollback(w, i) ==
    LET item == w.tree[i]
        isTopLevelItem == item.parent = 0
        parentJoint == IF isTopLevelItem THEN NoRef
                       ELSE Resolve(w.objs, w.tree[item.parent].joint)
        joint == NewId(w)
        undone == removeDynamics(w, <<>>)
    IN  IF ResolveControl(item.control) = NoRef
        THEN [undone EXCEPT !.status = "abort",
                            !.log = Append(@, Event("error", "control", item.control))]
        ELSE IF HasJoint(item) THEN w
        ELSE [w EXCEPT !.objs = CreateNode(@, joint, "joint", parentJoint, NoRef, NoRef),
                       !.tree[i].joint = joint,
                       !.log = Append(@, Event("create", "joint", item.control))]

\* The body of the first loop of addDynamics for the item i.
EnsureJoint(w, i) ==
    LET item == w.tree[i]
        control == ResolveControl(item.control)
        isTopLevelItem == item.parent = 0
        parentJoint == IF isTopLevelItem THEN NoRef
                       ELSE Resolve(w.objs, w.tree[item.parent].joint)
        joint == NewId(w)
        w1 == [w EXCEPT !.objs = CreateNode(@, joint, "joint", parentJoint, NoRef, NoRef),
                        !.tree[i].joint = joint,
                        !.log = Append(@, Event("create", "joint", item.control))]
        parentControl == ResolveControl(w.tree[item.parent].control)
    IN  IF control = NoRef
        THEN [w EXCEPT !.status = "abort",
                       !.log = Append(@, Event("error", "control", item.control))]
        ELSE IF HasJoint(item) THEN w
        ELSE IF ~isTopLevelItem /\ parentControl = NoRef
        THEN [w1 EXCEPT !.status = "raise"]
        ELSE w1

\* createBoneDynamics: the new node runs from startJoint to endJoint. The
\* result is the world and the node created.
createBoneDynamics(w, startJoint, endJoint, control) ==
    LET boneDynamics == NewId(w)
        ground == w.ground
        groundEnabled == w.groundChecked
        followRestPoseEnabled == w.followRestPose
        followed == IF ResolveControl(control) # NoRef /\ followRestPoseEnabled
                    THEN control ELSE NoRef
        w1 == [w EXCEPT !.objs = [CreateNode(@, boneDynamics, "dyn", NoRef, startJoint, endJoint)
                                     EXCEPT ![boneDynamics].attrs = NewNodeAttrs,
                                            ![boneDynamics].rotationOffset = followed],
                        !.log = Append(@, Event("create", "dyn", control))]
        w2 == [w1 EXCEPT !.objs[boneDynamics].plane = ground]
    IN  IF startJoint = NoRef THEN [w |-> [w EXCEPT !.status = "raise"], node |-> NoRef]
        ELSE IF endJoint = NoRef THEN [w |-> [w1 EXCEPT !.status = "raise"], node |-> NoRef]
        ELSE IF ground # NoRef /\ groundEnabled
        THEN (IF Resolve(w.objs, ground) = NoRef
              THEN [w |-> [w1 EXCEPT !.status = "raise"], node |-> NoRef]
              ELSE [w |-> w2, node |-> boneDynamics])
        ELSE [w |-> w1, node |-> boneDynamics]

\* The second loop of addDynamics ending a bone at the joint of the last
\* child.
EnsureDynamicsLastChild(w, i) ==
    LET item == w.tree[i]
        startJoint == Resolve(w.objs, item.joint)
        children == Children(w.tree, i)
        isTip == Len(children) = 0
        tipJoint == NewId(w)
        w1 == [w EXCEPT !.objs = CreateNode(@, tipJoint, "tip", startJoint, NoRef, NoRef),
                        !.log = Append(@, Event("create", "tip", item.control))]
        w2 == [w1 EXCEPT !.tree[i].tip = tipJoint]
        endJoint == IF isTip THEN tipJoint
                    ELSE Resolve(w.objs, w.tree[children[Len(children)]].joint)
        made == createBoneDynamics(IF isTip THEN w2 ELSE w, startJoint, endJoint, item.control)
    IN  IF HasBoneDynamics(item) THEN w
        ELSE IF isTip /\ startJoint = NoRef THEN [w1 EXCEPT !.status = "raise"]
        ELSE IF made.w.status # "ok" THEN made.w
        ELSE [made.w EXCEPT !.tree[i].dyn = made.node]

\* The body of the second loop of addDynamics for the item i.
EnsureDynamics(w, i) ==
    LET item == w.tree[i]
        startJoint == Resolve(w.objs, item.joint)
        children == Children(w.tree, i)
        isTip == Len(children) = 0
        tipJoint == NewId(w)
        w1 == [w EXCEPT !.objs = CreateNode(@, tipJoint, "tip", startJoint, NoRef, NoRef),
                        !.log = Append(@, Event("create", "tip", item.control))]
        w2 == [w1 EXCEPT !.tree[i].tip = tipJoint]
        endJoint == IF isTip THEN tipJoint ELSE Resolve(w.objs, w.tree[children[1]].joint)
        made == createBoneDynamics(IF isTip THEN w2 ELSE w, startJoint, endJoint, item.control)
    IN  IF HasBoneDynamics(item) THEN w
        ELSE IF isTip /\ startJoint = NoRef THEN [w1 EXCEPT !.status = "raise"]
        ELSE IF made.w.status # "ok" THEN made.w
        ELSE [made.w EXCEPT !.tree[i].dyn = made.node]

RECURSIVE EnsureJoints(_, _)
EnsureJoints(w, items) ==
    IF items = <<>> \/ w.status # "ok" THEN w
    ELSE EnsureJoints(EnsureJoint(w, Head(items)), Tail(items))

RECURSIVE EnsureAllDynamics(_, _)
EnsureAllDynamics(w, items) ==
    IF items = <<>> \/ w.status # "ok" THEN w
    ELSE EnsureAllDynamics(EnsureDynamics(w, Head(items)), Tail(items))

\* addDynamics without the push of the properties at its end.
addDynamicsNoPush(w) ==
    LET w1 == EnsureJoints(w, walkTreeWidgetItems(w.tree, <<>>))
        w2 == EnsureAllDynamics(w1, walkTreeWidgetItems(w1.tree, <<>>))
    IN  IF w1.status # "ok" THEN w1 ELSE w2

addDynamics(w) ==
    LET w1 == EnsureJoints(w, walkTreeWidgetItems(w.tree, <<>>))
        w2 == EnsureAllDynamics(w1, walkTreeWidgetItems(w1.tree, <<>>))
    IN  IF w1.status # "ok" THEN w1
        ELSE IF w2.status # "ok" THEN w2
        ELSE pushSimulationProperties(w2, <<>>)

\* ------------------------------------------- addSelection, removeSelection
\* all() where the code has any().
hasControllerAll(t, controls) ==
    LET currentUuids == {t[i].control : i \in 1..Len(t)}
    IN  \A k \in 1..Len(controls) : controls[k] \in currentUuids

\* The test looking at the top-level items alone.
hasControllerTopLevel(t, controls) ==
    LET currentUuids == {t[i].control : i \in Range(Children(t, 0))}
    IN  \E k \in 1..Len(controls) : controls[k] \in currentUuids

hasController(t, controls) ==
    LET currentUuids == {t[i].control : i \in 1..Len(t)}
    IN  \E k \in 1..Len(controls) : controls[k] \in currentUuids

\* The loop with every control added under selectedItem.
RECURSIVE AddSiblings(_, _, _)
AddSiblings(t, selection, parent) ==
    IF selection = <<>> THEN t
    ELSE AddSiblings(Append(t, NewItem(Head(selection), parent)), Tail(selection), parent)

\* The loop of addSelection: the first control goes under selectedItem (0:
\* the tree widget itself), each later one under the item made before it.
RECURSIVE AddChain(_, _, _)
AddChain(t, selection, parent) ==
    IF selection = <<>> THEN t
    ELSE AddChain(Append(t, NewItem(Head(selection), parent)), Tail(selection), Len(t) + 1)

addSelection(w, selection, selectedItem) ==
    IF hasController(w.tree, selection)
    THEN [w EXCEPT !.warning = "Add Selection"]
    ELSE [w EXCEPT !.tree = AddChain(@, selection, selectedItem)]

RECURSIVE DetachEvents(_, _)
DetachEvents(t, items) ==
    IF items = <<>> THEN <<>>
    ELSE <<Event("detach", "item", t[Head(items)].control)>> \o DetachEvents(t, Tail(items))

removeSelection(w, treeWidgetItems) ==
    LET items == IF treeWidgetItems = <<>>
                 THEN walkTreeWidgetItems(w.tree, <<>>)
                 ELSE treeWidgetItems
        w1 == removeDynamics(w, items)
    IN  IF w1.status # "ok" THEN w1
        ELSE [w1 EXCEPT !.log = @ \o DetachEvents(w1.tree, items),
                        !.tree = TakeItems(@, Range(items))]

\* ------------------------------------------------------------ slots
\* The slot building the rig when checked and leaving it when unchecked.
on_simulatePushButton_toggledBuildOnly(w, checked) ==
    LET hasTopLevelItems == Len(Children(w.tree, 0)) > 0
    IN  IF hasTopLevelItems
        THEN (IF checked THEN addDynamics(w) ELSE w)
        ELSE (IF checked THEN [w EXCEPT !.simulate = ~checked] ELSE w)

on_simulatePushButton_toggled(w, checked) ==
    LET hasTopLevelItems == Len(Children(w.tree, 0)) > 0
    IN  IF hasTopLevelItems
        THEN (IF checked THEN addDynamics(w) ELSE removeDynamics(w, <<>>))
        ELSE (IF checked THEN [w EXCEPT !.simulate = ~checked] ELSE w)

\* QPushButton.setChecked: the toggled signal is emitted when the state changes.
setChecked(w, checked) ==
    IF w.simulate = checked THEN w
    ELSE on_simulatePushButton_toggled([w EXCEPT !.simulate = checked], checked)

on_addSelectionPushButton_clicked(w, selection) == addSelection(w, selection, 0)

\* The slot adding at the top level when it has no single item to append to.
on_appendOrAddSelection(w, selection, selectedItems) ==
    IF Len(selectedItems) = 1
    THEN addSelection(w, selection, selectedItems[1])
    ELSE addSelection(w, selection, 0)

on_appendSelectionPushButton_clicked(w, selection, selectedItems) ==
    IF Len(selectedItems) = 1
    THEN addSelection(w, selection, selectedItems[1])
    ELSE [w EXCEPT !.warning = "Append Selection"]

\* The slot with the selected item alone, its descendants not walked.
on_removeSelectedItemOnly(w, selectedItems) ==
    LET w1 == IF Len(selectedItems) > 0
              THEN removeSelection(w, <<selectedItems[1]>>)
              ELSE [w EXCEPT !.warning = "Remove Selection"]
    IN  IF w1.status # "ok" THEN w1
        ELSE IF Len(Children(w1.tree, 0)) = 0 THEN setChecked(w1, FALSE)
        ELSE w1

\* The slot leaving the simulate button as it is.
on_removeSelectionKeepChecked(w, selectedItems) ==
    IF Len(selectedItems) > 0
    THEN removeSelection(w, walkTreeWidgetItems(w.tree, <<selectedItems[1]>>))
    ELSE [w EXCEPT !.warning = "Remove Selection"]

on_removeSelectionPushButton_clicked(w, selectedItems) ==
    LET w1 == IF Len(selectedItems) > 0
              THEN removeSelection(w, walkTreeWidgetItems(w.tree, <<selectedItems[1]>>))
              ELSE [w EXCEPT !.warning = "Remove Selection"]
    IN  IF w1.status # "ok" THEN w1
        ELSE IF Len(Children(w1.tree, 0)) = 0 THEN setChecked(w1, FALSE)
        ELSE w1

on_clearSelectionPushButton_clicked(w) ==
    LET w1 == removeSelection(w, <<>>)
    IN  IF w1.status # "ok" THEN w1 ELSE setChecked(w1, FALSE)

\* ------------------------------------------------------ follow rest pose
\* The loop of addRotationOffset over iterComponents().
RECURSIVE ConnectEach(_, _)
ConnectEach(w, items) ==
    IF items = <<>> THEN w
    ELSE LET item == w.tree[Head(items)]
             control == IF HasRef(item.control) THEN ResolveControl(item.control) ELSE NoRef
             dynamics == IF HasRef(item.dyn) THEN Resolve(w.objs, item.dyn) ELSE NoRef
         IN  ConnectEach(IF control # NoRef /\ dynamics # NoRef
                         THEN [w EXCEPT !.objs[dynamics].rotationOffset = control]
                         ELSE w,
                         Tail(items))

addRotationOffset(w) == ConnectEach(w, walkTreeWidgetItems(w.tree, <<>>))

\* The loop of removeRotationOffset over iterBoneDynamics().
RECURSIVE DisconnectEach(_, _)
DisconnectEach(w, nodes) ==
    IF nodes = <<>> THEN w
    ELSE DisconnectEach([w EXCEPT !.objs[Head(nodes)].rotationOffset = NoRef], Tail(nodes))

removeRotationOffset(w) == DisconnectEach(w, iterBoneDynamics(w))

\* The slot connecting when checked and leaving the nodes when unchecked.
on_followRestPoseConnectOnly(w, checked) ==
    IF checked THEN addRotationOffset(w) ELSE w

\* The slot of followRestPoseCheckBox.stateChanged (line 536).
on_followRestPoseCheckBox_clicked(w, checked) ==
    IF checked THEN addRotationOffset(w) ELSE removeRotationOffset(w)

\* -------------------------------------------------------- host callbacks
\* removeCallbacks() taking the rig down and leaving the ground plane.
removeCallbacksRigOnly(w) == removeDynamics(w, <<>>)

\* om.MSceneMessage.addCallback / om.MEventMessage.addEventCallback: the
\* host registers the callback under a fresh id, which the window keeps.
RegisterCallback(w, event) ==
    LET callbackId == CHOOSE n \in 1..(Cardinality(w.hostCallbacks) + 1) :
                          \A c \in w.hostCallbacks : c.id # n
    IN  [w EXCEPT !.hostCallbacks = @ \cup {[id |-> callbackId, event |-> event]},
                  !.callbackIds = Append(@, callbackId)]

\* addCallbacks() registering whether or not it holds callbacks.
addCallbacksUnguarded(w) ==
    RegisterCallback(RegisterCallback(RegisterCallback(w, "kAfterNew"), "kAfterOpen"),
                     "SelectionChanged")

addCallbacks(w) ==
    LET hasCallbacks == Len(w.callbackIds) > 0
    IN  IF ~hasCallbacks
        THEN RegisterCallback(RegisterCallback(RegisterCallback(w, "kAfterNew"), "kAfterOpen"),
                              "SelectionChanged")
        ELSE w

\* removeCallbacks(): the callbacks go, then the ground plane, then the rig.
removeCallbacks(w) ==
    LET hasCallbacks == Len(w.callbackIds) > 0
        w1 == IF hasCallbacks
              THEN [w EXCEPT !.hostCallbacks = {c \in @ : c.id \notin Range(w.callbackIds)},
                             !.callbackIds = <<>>]
              ELSE w
    IN  removeDynamics(removeGroundCollision(w1), <<>>)

\* invalidateSelection(): the tracker takes the selection of the scene.
invalidateSelection(w, sceneSelection) == [w EXCEPT !.selection = sceneSelection]

sceneChanged(w, sceneSelection) ==
    LET w1 == setChecked(w, FALSE)
    IN  IF w1.status # "ok" THEN w1
        ELSE invalidateSelection([w1 EXCEPT !.tree = <<>>], sceneSelection)

selectionChanged(w, sceneSelection) == invalidateSelection(w, sceneSelection)

\* QtCompat.isValid(instance): the Qt object behind the window is alive.
isValid(inst) == inst = "Valid"

\* A callback that dispatches to whatever getInstance() returns.
onSelectionChangedUnguarded(w, inst, sceneSelection) ==
    IF inst = "None" THEN w ELSE selectionChanged(w, sceneSelection)

onSelectionChanged(w, inst, sceneSelection) ==
    IF inst = "None" THEN w
    ELSE IF isValid(inst) THEN selectionChanged(w, sceneSelection)
    ELSE [w EXCEPT !.log = Append(@, Event("warning", "selectionChanged", NoRef))]

\* A callback that dispatches to whatever getInstance() returns.
onSceneChangedUnguarded(w, inst, sceneSelection) ==
    IF inst = "None" THEN w ELSE sceneChanged(w, sceneSelection)

onSceneChanged(w, inst, sceneSelection) ==
    IF inst = "None" THEN w
    ELSE IF isValid(inst) THEN sceneChanged(w, sceneSelection)
    ELSE [w EXCEPT !.log = Append(@, Event("warning", "sceneChanged", NoRef))]

\* ---------------------------------------------------------- bakeDynamics
\* dcc.generators.inclusiverange.inclusiveRange for start <= end, step >= 1.
InclusiveRange(start, end, interval) ==
    [k \in 1..((end - start) \div interval + 1) |-> start + (k - 1) * interval]

EmptyCache == [order |-> <<>>, at |-> <<>>]

\* joint.worldMatrix(time=time): the pose of a joint at a frame.
WorldMatrix(joint, time) == <<joint, time>>

\* cache[uuid][time] = matrix, on a defaultdict(dict).
CachePut(c, uuid, time, matrix) ==
    [order |-> IF uuid \in Range(c.order) THEN c.order ELSE Append(c.order, uuid),
     at |-> [key \in DOMAIN c.at \cup {<<uuid, time>>} |->
                IF key = <<uuid, time>> THEN matrix ELSE c.at[key]]]

\* The sampling loops: b holds the cache, the queries made and the status.
RECURSIVE SampleEach(_, _, _)
SampleEach(b, w, visits) ==
    IF visits = <<>> \/ b.status # "ok" THEN b
    ELSE LET time == Head(visits)[1]
             item == w.tree[Head(visits)[2]]
             joint == Resolve(w.objs, item.joint)
         IN  IF joint = NoRef THEN [b EXCEPT !.status = "raise"]
             ELSE SampleEach([b EXCEPT !.cache = CachePut(@, item.control, time, WorldMatrix(joint, time)),
                                       !.sampled = Append(@, <<item.control, time>>)],
                             w, Tail(visits))

\* radioButtonGroup.checkedId() once loadSettings has checked a button of
\* the exclusive group: 0 (Position) or 1 (Rotation).
BakeOptions == {0, 1}

positionRadioButtonIsChecked(bakeOption) == bakeOption = 0

\* A rotation button that reads as checked whatever the group holds.
rotationRadioButtonAlwaysChecked(bakeOption) == TRUE

rotationRadioButtonIsChecked(bakeOption) == bakeOption = 1

\* control.setWorldMatrix(matrix, skipTranslate=..., skipRotate=..., skipScale=True)
SetWorldMatrix(control, time, matrix, skipTranslate, skipRotate) ==
    <<control, time, matrix, skipTranslate, skipRotate, TRUE>>

\* The writeback loops: b holds the cache, the writes made and the status.
RECURSIVE WriteEach(_, _, _, _)
WriteEach(b, visits, skipTranslate, skipRotate) ==
    IF visits = <<>> \/ b.status # "ok" THEN b
    ELSE LET time == Head(visits)[1]
             uuid == Head(visits)[2]
             control == ResolveControl(uuid)
         IN  IF control = NoRef THEN [b EXCEPT !.status = "raise"]
             ELSE WriteEach([b EXCEPT !.written =
                                Append(@, SetWorldMatrix(control, time, b.cache.at[<<uuid, time>>],
                                                         skipTranslate, skipRotate))],
                            Tail(visits), skipTranslate, skipRotate)

\* ------------------------------------------------------------ actions
\* self.scene.selection(): the host selects nodes the scene holds.
Selections == DistinctSeqs(alive)

\* selectionTreeWidget.selectedItems(): the view selects one item at a time.
TreeSelections == {<<>>} \cup {<<i>> : i \in 1..Len(tree)}

bakeVars == <<pc, startTime, endTime, step, cache, sampled, written>>

walkVars == <<walkArgs, yielded>>

windowVars == <<instance, _selection, _callbackIds, hostCallbacks>>

groundVars == <<_ground, groundChecked, followRestPose>>

presetVars == <<directory, _presets, currentText, caseSensitive>>

\* The window and the scene as a method leaves them.
Store(w) ==
    /\ tree' = w.tree
    /\ objs' = w.objs
    /\ simulate' = w.simulate
    /\ log' = w.log
    /\ widgets' = w.widgets
    /\ warning' = w.warning
    /\ error' = IF w.status = "ok" THEN "" ELSE w.status
    /\ _selection' = w.selection
    /\ _callbackIds' = w.callbackIds
    /\ hostCallbacks' = w.hostCallbacks
    /\ _ground' = w.ground
    /\ groundChecked' = w.groundChecked
    /\ followRestPose' = w.followRestPose
    /\ UNCHANGED <<cascade, alive>>
    /\ directory' = w.directory
    /\ _presets' = w.presets
    /\ currentText' = w.currentText
    /\ UNCHANGED <<walkVars, edits, caseSensitive>>

Commit(w) == Store(w) /\ UNCHANGED instance

AddSelectionClicked ==
    /\ pc = "Idle"
    /\ \E selection \in Selections :
          Commit(on_addSelectionPushButton_clicked(World, selection))
    /\ UNCHANGED bakeVars

AppendSelectionClicked ==
    /\ pc = "Idle"
    /\ \E selection \in Selections, selectedItems \in TreeSelections :
          Commit(on_appendSelectionPushButton_clicked(World, selection, selectedItems))
    /\ UNCHANGED bakeVars

RemoveSelectionClicked ==
    /\ pc = "Idle"
    /\ \E selectedItems \in TreeSelections :
          Commit(on_removeSelectionPushButton_clicked(World, selectedItems))
    /\ UNCHANGED bakeVars

ClearSelectionClicked ==
    /\ pc = "Idle"
    /\ Commit(on_clearSelectionPushButton_clicked(World))
    /\ UNCHANGED bakeVars

\* A click on the simulate button toggles it.
SimulateClicked ==
    /\ pc = "Idle"
    /\ Commit(setChecked(World, ~simulate))
    /\ UNCHANGED bakeVars

ResetBake ==
    /\ startTime' = 0
    /\ endTime' = 0
    /\ step' = 1
    /\ cache' = EmptyCache
    /\ sampled' = <<>>
    /\ written' = <<>>

\* on_bakePushButton_clicked enters bakeDynamics: the precondition.
BakeClicked ==
    /\ pc = "Idle"
    /\ log' = <<>>
    /\ error' = ""
    /\ UNCHANGED <<tree, objs, simulate, cascade, alive, cache, sampled, written>>
    /\ UNCHANGED <<walkVars, widgets, edits>>
    /\ UNCHANGED <<windowVars, groundVars, presetVars>>
    /\ IF Len(iterBoneDynamics(World)) = 0
       THEN /\ warning' = "Bake Dynamics"
            /\ pc' = "Finish"
            /\ UNCHANGED <<startTime, endTime, step>>
       ELSE /\ warning' = ""
            /\ pc' = "Sampling"
            /\ \E s \in 0..MaxTime, e \in 0..MaxTime, i \in 1..MaxStep :
                  /\ s <= e
                  /\ startTime' = s
                  /\ endTime' = e
                  /\ step' = i

\* bakeDynamics: build the transform cache from the simulated joints.
BakeSample ==
    /\ pc = "Sampling"
    /\ LET visits == Nested(InclusiveRange(startTime, endTime, step),
                            walkTreeWidgetItems(tree, <<>>))
           b == SampleEach([cache |-> EmptyCache, sampled |-> <<>>, status |-> "ok"],
                           World, visits)
       IN  IF b.status = "ok"
           THEN /\ cache' = b.cache
                /\ sampled' = b.sampled
                /\ pc' = "Teardown"
                /\ UNCHANGED <<startTime, endTime, step, written, error>>
           ELSE /\ error' = b.status
                /\ pc' = "Idle"
                /\ ResetBake
    /\ UNCHANGED <<tree, objs, simulate, cascade, alive, log, warning>>
    /\ UNCHANGED <<walkVars, widgets, edits>>
    /\ UNCHANGED <<windowVars, groundVars, presetVars>>

\* bakeDynamics: remove the dynamics from the scene.
BakeTeardown ==
    /\ pc = "Teardown"
    /\ Commit(removeDynamics(World, <<>>))
    /\ pc' = "Writeback"
    /\ UNCHANGED <<startTime, endTime, step, cache, sampled, written>>

\* bakeDynamics: update the controls from the cached matrices.
BakeWriteback ==
    /\ pc = "Writeback"
    /\ \E bakeOption \in BakeOptions :
          LET skipTranslate == ~positionRadioButtonIsChecked(bakeOption)
              skipRotate == ~rotationRadioButtonIsChecked(bakeOption)
              visits == Nested(InclusiveRange(startTime, endTime, step), cache.order)
              b == WriteEach([cache |-> cache, written |-> <<>>, status |-> "ok"],
                             visits, skipTranslate, skipRotate)
          IN  IF b.status = "ok"
              THEN /\ written' = b.written
                   /\ pc' = "Finish"
                   /\ UNCHANGED <<startTime, endTime, step, cache, sampled, error>>
              ELSE /\ error' = b.status
                   /\ pc' = "Idle"
                   /\ ResetBake
    /\ UNCHANGED <<tree, objs, simulate, cascade, alive, log, warning>>
    /\ UNCHANGED <<walkVars, widgets, edits>>
    /\ UNCHANGED <<windowVars, groundVars, presetVars>>

\* on_bakePushButton_clicked after bakeDynamics returned: uncheck the
\* simulate button and clear the tree widget.
BakeFinish ==
    /\ pc = "Finish"
    /\ LET w == setChecked([World EXCEPT !.log = log, !.warning = warning], FALSE)
       IN  Commit(IF w.status = "ok" THEN [w EXCEPT !.tree = <<>>] ELSE w)
    /\ pc' = "Idle"
    /\ ResetBake

\* The window right after construction: __init__ (lines 109-119) and
\* __post_init__, in a presets directory that holds Default.json alone.
InitHost ==
    /\ instance = "Valid"
    /\ _selection = <<>>
    /\ _ground = NoRef
    /\ groundChecked = FALSE
    /\ followRestPose = TRUE
    /\ _callbackIds = <<>>
    /\ hostCallbacks = {}
    /\ directory = DefaultOnly
    /\ _presets = [name \in DOMAIN DefaultOnly |-> DefaultOnly[name].preset]
    /\ currentText = "Default"
    /\ caseSensitive = TRUE

Init ==
    /\ tree = <<>>
    /\ objs = <<>>
    /\ simulate = FALSE
    /\ cascade \in BOOLEAN
    /\ alive = Controls
    /\ pc = "Idle"
    /\ startTime = 0
    /\ endTime = 0
    /\ step = 1
    /\ cache = EmptyCache
    /\ sampled = <<>>
    /\ written = <<>>
    /\ log = <<>>
    /\ warning = ""
    /\ error = ""
    /\ walkArgs = <<>>
    /\ yielded = <<>>
    /\ widgets = InitialWidgets
    /\ edits = 0
    /\ InitHost

Next ==
    \/ AddSelectionClicked
    \/ AppendSelectionClicked
    \/ RemoveSelectionClicked
    \/ ClearSelectionClicked
    \/ SimulateClicked
    \/ BakeClicked
    \/ BakeSample
    \/ BakeTeardown
    \/ BakeWriteback
    \/ BakeFinish

Spec == Init /\ [][Next]_vars

\* ------------------------------------------- the scene changes out of band
\* The user deletes a control in the host while the window is open: from
\* then on MPyNode(controlUUID) is None for the entries that track it.
ControlDeleted ==
    /\ pc = "Idle"
    /\ \E control \in alive : alive' = alive \ {control}
    /\ UNCHANGED <<tree, objs, simulate, cascade, log, warning, error>>
    /\ UNCHANGED bakeVars
    /\ UNCHANGED <<walkVars, widgets, edits>>
    /\ UNCHANGED <<windowVars, groundVars, presetVars>>

NextScene ==
    \/ AddSelectionClicked
    \/ AppendSelectionClicked
    \/ RemoveSelectionClicked
    \/ ClearSelectionClicked
    \/ SimulateClicked
    \/ ControlDeleted

\* The selection and simulate handlers in a scene that loses controls.
SpecScene == Init /\ [][NextScene]_vars

\* The user deletes a generated joint, tip joint or simulation node in the
\* host: from then on MPyNode(uuid) is None for the column that names it.
ObjectDeleted ==
    /\ pc = "Idle"
    /\ \E node \in DOMAIN objs : objs' = DeleteNode(objs, node)
    /\ UNCHANGED <<tree, simulate, cascade, alive, log, warning, error>>
    /\ UNCHANGED bakeVars
    /\ UNCHANGED <<walkVars, widgets, edits>>
    /\ UNCHANGED <<windowVars, groundVars, presetVars>>

NextOutOfBand ==
    \/ AddSelectionClicked
    \/ AppendSelectionClicked
    \/ RemoveSelectionClicked
    \/ ClearSelectionClicked
    \/ SimulateClicked
    \/ BakeClicked
    \/ BakeSample
    \/ BakeTeardown
    \/ BakeWriteback
    \/ BakeFinish
    \/ ControlDeleted
    \/ ObjectDeleted

\* Every handler in a scene that loses controls and generated objects.
SpecOutOfBand == Init /\ [][NextOutOfBand]_vars

NextTeardown ==
    \/ AddSelectionClicked
    \/ SimulateClicked
    \/ ObjectDeleted

\* Building and tearing down in a scene that loses generated objects.
SpecTeardown == Init /\ [][NextTeardown]_vars

\* ------------------------------------------------------- host callbacks
\* The selection of the scene changes and the host fires SelectionChanged.
SelectionChangedFired ==
    /\ pc = "Idle"
    /\ \E sceneSelection \in Selections :
          Commit(onSelectionChanged(World, instance, sceneSelection))
    /\ UNCHANGED bakeVars

\* The host makes or opens a scene, which holds none of the objects the
\* tool generated and has nothing selected, and fires kAfterNew or kAfterOpen.
SceneChangedFired ==
    /\ pc = "Idle"
    /\ Commit(onSceneChanged([World EXCEPT !.objs = <<>>], instance, <<>>))
    /\ UNCHANGED bakeVars

\* A window is made while none is valid: it starts as __init__ and
\* __setup_ui__ leave it, with the selection of the scene.
WindowCreated ==
    /\ pc = "Idle"
    /\ ~isValid(instance)
    /\ instance' = "Valid"
    /\ \E sceneSelection \in Selections :
          Store([World EXCEPT !.tree = <<>>, !.simulate = FALSE,
                              !.widgets = InitialWidgets, !.ground = NoRef,
                              !.groundChecked = FALSE, !.selection = sceneSelection])
    /\ UNCHANGED bakeVars

\* The window is closed: removeCallbacks() runs, then the Qt object is
\* deleted, and the singleton may keep or drop its reference to it.
WindowClosed ==
    /\ pc = "Idle"
    /\ isValid(instance)
    /\ instance' \in {"Invalid", "None"}
    /\ Store(removeCallbacks(World))
    /\ UNCHANGED bakeVars

\* add on the selection the window tracks.
AddTrackedSelectionClicked ==
    /\ pc = "Idle"
    /\ isValid(instance)
    /\ Commit(on_addSelectionPushButton_clicked(World, _selection))
    /\ UNCHANGED bakeVars

WindowSimulateClicked ==
    /\ isValid(instance)
    /\ SimulateClicked

NextCallbacks ==
    \/ AddTrackedSelectionClicked
    \/ WindowSimulateClicked
    \/ SelectionChangedFired
    \/ SceneChangedFired
    \/ WindowCreated
    \/ WindowClosed

\* The window, made and closed, and the callbacks of the host.
SpecCallbacks == Init /\ [][NextCallbacks]_vars

NextSceneChange ==
    \/ Next
    \/ SceneChangedFired

\* The actions of the window together with the scene-change callback.
SpecSceneChange == Init /\ [][NextSceneChange]_vars

\* ------------------------------------------------------ ground collision
\* A click on the ground check box toggles it.
GroundCheckBoxClicked ==
    /\ pc = "Idle"
    /\ LET checked == ~groundChecked
       IN  Commit(on_groundCheckBox_clicked([World EXCEPT !.groundChecked = checked], checked))
    /\ UNCHANGED bakeVars

NextGround ==
    \/ AddSelectionClicked
    \/ RemoveSelectionClicked
    \/ ClearSelectionClicked
    \/ SimulateClicked
    \/ GroundCheckBoxClicked

\* The selection and simulate slots with the ground check box.
SpecGround == Init /\ [][NextGround]_vars

\* ------------------------------------------------- ground and scene change
NextGroundScene ==
    \/ error = "" /\ NextGround
    \/ SceneChangedFired

\* The ground check box in a session whose scene is replaced; a session
\* that met an exception goes on with the next scene.
SpecGroundScene == Init /\ [][NextGroundScene]_vars

\* ------------------------------------------------- callback registration
\* The window framework calls addCallbacks().
AddCallbacksCalled ==
    /\ pc = "Idle"
    /\ Commit(addCallbacks(World))
    /\ UNCHANGED bakeVars

\* The window framework calls removeCallbacks().
RemoveCallbacksCalled ==
    /\ pc = "Idle"
    /\ Commit(removeCallbacks(World))
    /\ UNCHANGED bakeVars

\* The host fires a scene change it holds a callback for.
RegisteredSceneChangedFired ==
    /\ \E c \in hostCallbacks : c.event \in {"kAfterNew", "kAfterOpen"}
    /\ SceneChangedFired

NextRegistration ==
    \/ error = "" /\ AddSelectionClicked
    \/ error = "" /\ SimulateClicked
    \/ error = "" /\ GroundCheckBoxClicked
    \/ error = "" /\ AddCallbacksCalled
    \/ error = "" /\ RemoveCallbacksCalled
    \/ RegisteredSceneChangedFired

\* The rig and the ground while callbacks are added and removed; a session
\* that met an exception goes on with the next scene.
SpecRegistration == Init /\ [][NextRegistration]_vars

\* ------------------------------------------------- walkTreeWidgetItems
\* The tree widget whose i-th item, in creation order, tracks the control i
\* and lies under the item parents[i] (0: top level). Add and append make
\* every such forest: an item is always created after its parent.
Forest(parents) == [i \in 1..Len(parents) |-> NewItem(i, parents[i])]

Forests ==
    UNION {{Forest(parents) :
               parents \in {q \in [1..n -> 0..MaxItems] : \A i \in 1..n : q[i] < i}} :
           n \in 0..MaxItems}

\* The arguments walkTreeWidgetItems takes: none, or items of the tree none
\* of which lies under another.
RootChoices(t) ==
    {roots \in DistinctSeqs(1..Len(t)) :
        \A a \in Range(roots) : ItemDescendants(t, {a}) \cap Range(roots) = {a}}

InitWalk ==
    /\ tree \in Forests
    /\ walkArgs \in RootChoices(tree)
    /\ yielded = <<>>
    /\ objs = <<>>
    /\ simulate = FALSE
    /\ cascade = FALSE
    /\ alive = Controls
    /\ pc = "Idle"
    /\ startTime = 0
    /\ endTime = 0
    /\ step = 1
    /\ cache = EmptyCache
    /\ sampled = <<>>
    /\ written = <<>>
    /\ log = <<>>
    /\ warning = ""
    /\ error = ""
    /\ widgets = InitialWidgets
    /\ edits = 0
    /\ InitHost

\* list(self.walkTreeWidgetItems(*walkArgs))
WalkTreeWidgetItems ==
    /\ yielded = <<>>
    /\ tree # <<>>
    /\ yielded' = walkTreeWidgetItems(tree, walkArgs)
    /\ UNCHANGED <<tree, objs, simulate, cascade, alive, log, warning, error, walkArgs>>
    /\ UNCHANGED <<bakeVars, widgets, edits>>
    /\ UNCHANGED <<windowVars, groundVars, presetVars>>

NextWalk == WalkTreeWidgetItems

\* walkTreeWidgetItems over every forest and every choice of root items.
SpecWalk == InitWalk /\ [][NextWalk]_vars

\* ------------------------------------------------ simulation properties
\* The values the user gives a spin box: the ends of its range.
WidgetValues(p) == {p.minimum, p.maximum}

\* The values the user gives an attribute of a simulation node in the host.
\* The tool tip of the iterations spin box (line 378) names one below the
\* range of the spin box: "0 disables collisions".
NodeValues(p) ==
    IF IsCheckBox(p) THEN BOOLEAN
    ELSE IF p.whatsThis = "iterations" THEN {0, p.minimum, p.maximum}
    ELSE {p.minimum, p.maximum}

\* The tree after the controls 1..n were selected and added, before any
\* simulation.
InitProperties ==
    /\ \E n \in 0..MaxCtl : tree = AddChain(<<>>, IdxSeq(n), 0)
    /\ objs = <<>>
    /\ simulate = FALSE
    /\ cascade = FALSE
    /\ alive = Controls
    /\ pc = "Idle"
    /\ startTime = 0
    /\ endTime = 0
    /\ step = 1
    /\ cache = EmptyCache
    /\ sampled = <<>>
    /\ written = <<>>
    /\ log = <<>>
    /\ warning = ""
    /\ error = ""
    /\ walkArgs = <<>>
    /\ yielded = <<>>
    /\ widgets = InitialWidgets
    /\ edits = 0
    /\ InitHost

\* The user sets a spin box: valueChanged runs its slot.
SpinBoxEdited ==
    /\ edits < MaxEdits
    /\ edits' = edits + 1
    /\ \E p \in {q \in Range(overlapPropertyWidgets) : IsSpinBox(q)} :
          \E value \in WidgetValues(p) :
              /\ widgets[p.whatsThis].enabled
              /\ LET w == setValue(World, p.whatsThis, value)
                 IN  /\ widgets' = w.widgets
                     /\ objs' = w.objs
    /\ UNCHANGED <<tree, simulate, cascade, alive, log, warning, error>>
    /\ UNCHANGED <<bakeVars, walkVars>>
    /\ UNCHANGED <<windowVars, groundVars, presetVars>>

\* The user clicks the angle limit check box.
AngleLimitCheckBoxClicked ==
    /\ edits < MaxEdits
    /\ edits' = edits + 1
    /\ LET w == nextCheckState(World, "enableAngleLimit")
       IN  /\ widgets' = w.widgets
           /\ objs' = w.objs
    /\ UNCHANGED <<tree, simulate, cascade, alive, log, warning, error>>
    /\ UNCHANGED <<bakeVars, walkVars>>
    /\ UNCHANGED <<windowVars, groundVars, presetVars>>

\* The user sets an attribute of a simulation node in the host.
AttributeEdited ==
    /\ edits < MaxEdits
    /\ edits' = edits + 1
    /\ \E node \in {x \in DOMAIN objs : objs[x].kind = "dyn"} :
          \E p \in Range(overlapPropertyWidgets) :
              \E value \in NodeValues(p) :
                  objs' = SetAttr(objs, node, p.whatsThis, value)
    /\ UNCHANGED <<tree, simulate, cascade, alive, log, warning, error, widgets>>
    /\ UNCHANGED <<bakeVars, walkVars>>
    /\ UNCHANGED <<windowVars, groundVars, presetVars>>

\* A call of pullSimulationProperties.
PullSimulationProperties ==
    /\ Commit(pullSimulationProperties(World))
    /\ UNCHANGED bakeVars

NextProperties ==
    \/ SimulateClicked
    \/ SpinBoxEdited
    \/ AngleLimitCheckBoxClicked
    \/ AttributeEdited
    \/ PullSimulationProperties

\* The property widgets and the attributes of the simulation nodes.
SpecProperties == InitProperties /\ [][NextProperties]_vars

\* ------------------------------------------------------------- the build
\* A tree of up to MaxItems entries, as add and append make it, every
\* control in the scene, before any simulation.
InitBuild ==
    /\ tree \in Forests
    /\ objs = <<>>
    /\ simulate = FALSE
    /\ cascade \in BOOLEAN
    /\ alive = 1..MaxItems
    /\ pc = "Idle"
    /\ startTime = 0
    /\ endTime = 0
    /\ step = 1
    /\ cache = EmptyCache
    /\ sampled = <<>>
    /\ written = <<>>
    /\ log = <<>>
    /\ warning = ""
    /\ error = ""
    /\ walkArgs = <<>>
    /\ yielded = <<>>
    /\ widgets = InitialWidgets
    /\ edits = 0
    /\ InitHost

NextBuild ==
    \/ SimulateClicked
    \/ RemoveSelectionClicked
    \/ ClearSelectionClicked

\* Build and teardown of trees of every shape.
SpecBuild == InitBuild /\ [][NextBuild]_vars

\* ---------------------------------------------------------------- presets
\* What the user gives the dialogs of one click on the create button: every
\* answer but the last asks for the next dialog.
RetryAnswers ==
    {[text |-> t, response |-> TRUE, retry |-> TRUE] : t \in PresetNames}

LastAnswers ==
    {[text |-> t, response |-> TRUE, retry |-> FALSE] : t \in PresetNames}
        \cup {[text |-> "", response |-> FALSE, retry |-> FALSE]}

DialogAnswers ==
    UNION {{answers \in [1..n -> RetryAnswers \cup LastAnswers] :
               /\ answers[n] \in LastAnswers
               /\ \A k \in 1..(n - 1) : answers[k] \in RetryAnswers} :
           n \in 1..MaxDialogs}

\* The window in a presets directory that holds Default.json alone, on a
\* file system of either kind.
InitPresets ==
    /\ tree = <<>>
    /\ objs = <<>>
    /\ simulate = FALSE
    /\ cascade = FALSE
    /\ alive = Controls
    /\ pc = "Idle"
    /\ startTime = 0
    /\ endTime = 0
    /\ step = 1
    /\ cache = EmptyCache
    /\ sampled = <<>>
    /\ written = <<>>
    /\ log = <<>>
    /\ warning = ""
    /\ error = ""
    /\ walkArgs = <<>>
    /\ yielded = <<>>
    /\ widgets = InitialWidgets
    /\ edits = 0
    /\ instance = "Valid"
    /\ _selection = <<>>
    /\ _ground = NoRef
    /\ groundChecked = FALSE
    /\ followRestPose = TRUE
    /\ _callbackIds = <<>>
    /\ hostCallbacks = {}
    /\ directory = DefaultOnly
    /\ _presets = [name \in DOMAIN DefaultOnly |-> DefaultOnly[name].preset]
    /\ currentText = "Default"
    /\ caseSensitive \in BOOLEAN

CreatePresetClicked ==
    /\ \E answers \in DialogAnswers :
          Commit(on_createPresetPushButton_clicked(World, answers))
    /\ UNCHANGED bakeVars

DeletePresetClicked ==
    /\ \E response \in BOOLEAN :
          Commit(on_deletePresetPushButton_clicked(World, response))
    /\ UNCHANGED bakeVars

\* The user picks another item of the combo box.
PresetSelected ==
    /\ \E text \in DOMAIN _presets \ {currentText} :
          Commit(on_presetsComboBox_currentTextChanged(
                     [World EXCEPT !.currentText = text], text))
    /\ UNCHANGED bakeVars

\* A preset file is made read-only, or writable again, outside the window.
PresetLocked ==
    /\ \E name \in DOMAIN directory :
          directory' = [directory EXCEPT ![name].readOnly = ~@]
    /\ UNCHANGED <<tree, objs, simulate, cascade, alive, log, warning, error,
                   widgets, edits, _presets, currentText, caseSensitive>>
    /\ UNCHANGED <<bakeVars, walkVars, windowVars, groundVars>>

NextPresets ==
    \/ CreatePresetClicked
    \/ DeletePresetClicked
    \/ PresetSelected
    \/ PresetLocked
    \/ SpinBoxEdited

\* The preset store: create, delete and select, with edits of the spin boxes.
SpecPresets == InitPresets /\ [][NextPresets]_vars

\* A presets directory with Default.json and a second preset that holds
\* the largest value of each of the five spin boxes.
TwoPresets ==
    [name \in {"Default", "Soft"} |->
        [preset |-> [a \in Range(CoreAttributes) |->
                        IF name = "Default" THEN PropertyOf(a).value
                        ELSE PropertyOf(a).maximum],
         readOnly |-> FALSE]]

\* The tree after the controls 1..n were added, before any simulation, in
\* a window that has loaded the two presets.
InitTool ==
    /\ \E n \in 0..MaxCtl : tree = AddChain(<<>>, IdxSeq(n), 0)
    /\ objs = <<>>
    /\ simulate = FALSE
    /\ cascade = FALSE
    /\ alive = Controls
    /\ pc = "Idle"
    /\ startTime = 0
    /\ endTime = 0
    /\ step = 1
    /\ cache = EmptyCache
    /\ sampled = <<>>
    /\ written = <<>>
    /\ log = <<>>
    /\ warning = ""
    /\ error = ""
    /\ walkArgs = <<>>
    /\ yielded = <<>>
    /\ widgets = InitialWidgets
    /\ edits = 0
    /\ instance = "Valid"
    /\ _selection = <<>>
    /\ _ground = NoRef
    /\ groundChecked = FALSE
    /\ followRestPose = TRUE
    /\ _callbackIds = <<>>
    /\ hostCallbacks = {}
    /\ directory = TwoPresets
    /\ _presets = [name \in DOMAIN TwoPresets |-> TwoPresets[name].preset]
    /\ currentText = "Default"
    /\ caseSensitive = TRUE

NextTool ==
    \/ SimulateClicked
    \/ SpinBoxEdited
    \/ AngleLimitCheckBoxClicked
    \/ PresetSelected

\* The property widgets and the presets, with no edit made in the host.
SpecTool == InitTool /\ [][NextTool]_vars

\* ------------------------------------------------------ follow rest pose
\* The user clicks the follow-rest-pose check box: stateChanged runs the slot.
FollowRestPoseCheckBoxClicked ==
    /\ pc = "Idle"
    /\ LET checked == ~followRestPose
       IN  Commit(on_followRestPoseCheckBox_clicked(
                      [World EXCEPT !.followRestPose = checked], checked))
    /\ UNCHANGED bakeVars

NextFollow ==
    \/ AddSelectionClicked
    \/ RemoveSelectionClicked
    \/ SimulateClicked
    \/ FollowRestPoseCheckBoxClicked

\* The rig and the follow-rest-pose check box.
SpecFollow == Init /\ [][NextFollow]_vars

\* ================================================================ claims
Perms(S) == {p \in DistinctSeqs(S) : Len(p) = Cardinality(S)}

Items == 1..Len(tree)

OpsOf(events, op) == {k \in 1..Len(events) : events[k].op = op}

NoRig(t) == \A i \in 1..Len(t) : t[i].joint = NoRef /\ t[i].tip = NoRef /\ t[i].dyn = NoRef

\* C1: building the rig is idempotent. In every reachable state, when
\* addDynamics completes, a second addDynamics right after it creates no
\* joint, no tip joint and no simulation node and leaves every entry's three
\* references and the scene as the first call left them.
BuildIdempotent ==
    LET first == addDynamics(World)
        second == addDynamics([first EXCEPT !.log = <<>>])
    IN  first.status = "ok" =>
          /\ second.status = "ok"
          /\ OpsOf(second.log, "create") = {}
          /\ second.tree = first.tree
          /\ second.objs = first.objs

\* C1 witness: a build has just created the rig of a tree of two entries,
\* and the tree and the scene are what another addDynamics returns.
BuildIdempotentWitness ==
    /\ simulate
    /\ Len(tree) >= 2
    /\ OpsOf(log, "create") # {}
    /\ \A i \in Items : HasRef(tree[i].joint) /\ HasRef(tree[i].dyn)
    /\ addDynamics(World).tree = tree
    /\ addDynamics(World).objs = objs

\* C2: teardown is idempotent and order-independent. For every reachable
\* tree and every set of entries, removeDynamics over the set in any two
\* orders ends without error with the same entry references and the same
\* surviving objects, and the same teardown run again deletes nothing and
\* changes nothing. (No entries given means every entry.)
TeardownOrderIndependent ==
    \A S \in SUBSET Items :
        \* every order agrees with one fixed order, hence any two agree
        LET b == removeDynamics(World, CHOOSE q \in Perms(S) : TRUE)
        IN  \A p \in Perms(S) :
                LET a == removeDynamics(World, p)
                    again == removeDynamics([a EXCEPT !.log = <<>>], p)
                IN  /\ a.status = "ok"
                    /\ a.tree = b.tree
                    /\ a.objs = b.objs
                    /\ again.status = "ok"
                    /\ again.log = <<>>
                    /\ again.tree = a.tree
                    /\ again.objs = a.objs

\* C2 witness: a teardown of one entry has just deleted objects while
\* another entry still holds its rig, so a further teardown has work to do.
TeardownOrderWitness ==
    /\ OpsOf(log, "delete") # {}
    /\ \E i \in Items : HasRef(tree[i].joint) /\ HasRef(tree[i].dyn)

\* C3: tearing down when no rig is present is a no-op. When no entry holds
\* a joint, tip joint or simulation node reference (the empty tree included),
\* removeDynamics over all or any of the entries deletes nothing, raises
\* nothing and leaves the entries and the scene unchanged.
TeardownNoRigIsNoOp ==
    NoRig(tree) =>
        \A S \in SUBSET Items :
            \A p \in Perms(S) :
                LET r == removeDynamics(World, p)
                IN  /\ r.status = "ok"
                    /\ r.log = <<>>
                    /\ r.tree = tree
                    /\ r.objs = objs

\* C3 witness: removeSelection has just run removeDynamics on an entry of a
\* tree without a rig: it detached the entry, deleted nothing, and the
\* entries left hold no reference.
TeardownNoRigWitness ==
    /\ Len(tree) > 0
    /\ NoRig(tree)
    /\ error = ""
    /\ OpsOf(log, "detach") # {}
    /\ OpsOf(log, "delete") = {}

\* The frames of the inclusive range [startTime, endTime] stepped by step.
ExpectedFrames == {t \in startTime..endTime : (t - startTime) % step = 0}

ExpectedFrameCount == (endTime - startTime) \div step + 1

\* The controls of the tree in traversal order, after a tree t.
TrackedControls(t) ==
    LET items == walkTreeWidgetItems(t, <<>>)
    IN  [k \in 1..Len(items) |-> t[items[k]].control]

\* The (control, frame) pairs of a bake: frames ascending, and within a
\* frame the controls in the given order.
RECURSIVE FramePairs(_, _)
FramePairs(frames, controls) ==
    IF frames = {} THEN <<>>
    ELSE LET t == CHOOSE x \in frames : \A y \in frames : x <= y
         IN  [k \in 1..Len(controls) |-> <<controls[k], t>>]
             \o FramePairs(frames \ {t}, controls)

LiveDynamics == {i \in Items : tree[i].dyn \in DOMAIN objs}

\* C4: a bake that passes its precondition goes through Idle, Sampling,
\* Teardown, Writeback, Idle in exactly that order: sampling is followed by
\* teardown and deletes nothing, teardown removes the whole rig before any
\* matrix is written and is followed by writeback, and no sample is taken
\* once teardown has started.
BakePhaseOrder ==
    [][/\ (pc = "Idle" /\ pc' # "Idle" /\ LiveDynamics # {}) => pc' = "Sampling"
       /\ pc = "Sampling" => (pc' = "Teardown" /\ objs' = objs /\ written' = <<>>)
       /\ pc = "Teardown" => (pc' = "Writeback" /\ sampled' = sampled
                                /\ written' = <<>> /\ NoRig(tree'))
       /\ pc = "Writeback" => (pc' = "Finish" /\ sampled' = sampled /\ objs' = objs)
       /\ pc = "Finish" => pc' = "Idle"]_vars

\* The order of C4 with the way out the code has: an exception raised while
\* sampling ends the bake with nothing deleted and nothing written.
BakePhaseOrderUnlessRaised ==
    [][/\ (pc = "Idle" /\ pc' # "Idle" /\ LiveDynamics # {}) => pc' = "Sampling"
       /\ pc = "Sampling" =>
             \/ pc' = "Teardown" /\ objs' = objs /\ written' = <<>>
             \/ pc' = "Idle" /\ error' = "raise" /\ objs' = objs /\ tree' = tree
       /\ pc = "Teardown" => (pc' = "Writeback" /\ sampled' = sampled
                                /\ written' = <<>> /\ NoRig(tree'))
       /\ pc = "Writeback" => (pc' = "Finish" /\ sampled' = sampled /\ objs' = objs)
       /\ pc = "Finish" => pc' = "Idle"]_vars

\* C5: for start <= end and step >= 1 the bake samples exactly the frames
\* start, start + step, ... up to end, floor((end - start) / step) + 1 of
\* them for every tracked control, and the writeback visits the same
\* (control, frame) pairs in the same order, writing for each the matrix
\* cached for it and nothing else.
BakeFrames ==
    [][/\ pc = "Sampling" =>
             /\ sampled' = FramePairs(ExpectedFrames, TrackedControls(tree))
             /\ \A i \in Items :
                    Cardinality({k \in 1..Len(sampled') : sampled'[k][1] = tree[i].control})
                        = ExpectedFrameCount
       /\ pc = "Writeback" =>
             /\ Len(written') = Len(sampled)
             /\ \A k \in 1..Len(sampled) :
                    /\ <<written'[k][1], written'[k][2]>> = sampled[k]
                    /\ written'[k][3] = cache.at[sampled[k]]]_vars

\* The frames of C5 for the bakes whose sampling raises nothing.
BakeFramesUnlessRaised ==
    [][/\ (pc = "Sampling" /\ pc' = "Teardown") =>
             /\ sampled' = FramePairs(ExpectedFrames, TrackedControls(tree))
             /\ \A i \in Items :
                    Cardinality({k \in 1..Len(sampled') : sampled'[k][1] = tree[i].control})
                        = ExpectedFrameCount
       /\ pc = "Writeback" =>
             /\ Len(written') = Len(sampled)
             /\ \A k \in 1..Len(sampled) :
                    /\ <<written'[k][1], written'[k][2]>> = sampled[k]
                    /\ written'[k][3] = cache.at[sampled[k]]]_vars

NoSimulationNode(t, o) ==
    /\ \A i \in 1..Len(t) : t[i].dyn = NoRef
    /\ \A x \in DOMAIN o : o[x].kind # "dyn"

\* C6: after baking no simulation node remains. Whenever the bake action,
\* started with at least one simulation node, is over, no tree entry
\* references a simulation node and no simulation node is in the scene.
BakeLeavesNoSimulationNode ==
    [][(pc \in {"Sampling", "Teardown", "Writeback", "Finish"} /\ pc' = "Idle")
          => NoSimulationNode(tree', objs')]_vars

\* The end of C6 for the bakes that raise nothing.
BakeLeavesNoSimulationNodeUnlessRaised ==
    [][(pc \in {"Sampling", "Teardown", "Writeback", "Finish"} /\ pc' = "Idle")
          => (error' = "raise" \/ NoSimulationNode(tree', objs'))]_vars

\* C7: the bake precondition. When no tree entry resolves to a simulation
\* node as bakeDynamics is entered, it shows a warning and returns: no frame
\* is sampled, nothing is deleted or cleared, nothing is written.
BakePrecondition ==
    [][(pc = "Idle" /\ pc' # "Idle" /\ LiveDynamics = {}) =>
          /\ pc' = "Finish"
          /\ warning' = "Bake Dynamics"
          /\ log' = <<>>
          /\ sampled' = <<>>
          /\ written' = <<>>
          /\ cache' = EmptyCache
          /\ UNCHANGED <<tree, objs, simulate>>]_vars

\* C7 witness: bakeDynamics has returned with its warning on a tree that
\* holds entries, none with a simulation node.
BakePreconditionWitness ==
    /\ pc = "Finish"
    /\ warning = "Bake Dynamics"
    /\ Len(tree) > 0
    /\ LiveDynamics = {}
    /\ sampled = <<>>
    /\ written = <<>>

Tracked(control) == \E i \in Items : tree[i].control = control

\* C8: adding an already-tracked control is rejected. When some control of
\* the scene selection is referenced by an entry anywhere in the forest, the
\* add action and the append action on any selected item show a warning and
\* leave the tree as it is: no selected control is added.
AddTrackedRejected ==
    \A selection \in Selections :
        (\E k \in 1..Len(selection) : Tracked(selection[k])) =>
            /\ LET r == on_addSelectionPushButton_clicked(World, selection)
               IN  r.warning # "" /\ r.tree = tree /\ r.objs = objs
            /\ \A i \in Items :
                   LET r == on_appendSelectionPushButton_clicked(World, selection, <<i>>)
                   IN  r.warning # "" /\ r.tree = tree /\ r.objs = objs

\* C8 witness: an add has just been rejected while the scene holds a
\* control that is not tracked yet.
AddTrackedRejectedWitness ==
    /\ warning = "Add Selection"
    /\ Len(tree) > 0
    /\ \E control \in Controls : ~Tracked(control)

\* C9: removing a selected entry removes it and its descendants and tears
\* their generated objects down first. After the remove action on any entry
\* the other entries are in the tree as before, the entry and its
\* descendants are not, none of their joints, tip joints and simulation
\* nodes is in the scene, and each of them was detached after the deletions
\* of its objects.
RemoveTearsDownSubtree ==
    \A i \in Items :
        LET r == on_removeSelectionPushButton_clicked(World, <<i>>)
            sub == ItemDescendants(tree, {i})
            kept == SelectSeq(IdxSeq(Len(tree)), LAMBDA j : j \notin sub)
        IN  /\ r.status = "ok"
            /\ Len(r.tree) = Len(kept)
            /\ \A k \in 1..Len(kept) :
                   /\ r.tree[k].control = tree[kept[k]].control
                   /\ r.tree[k].joint = tree[kept[k]].joint
                   /\ r.tree[k].tip = tree[kept[k]].tip
                   /\ r.tree[k].dyn = tree[kept[k]].dyn
            /\ \A j \in sub :
                   /\ {tree[j].joint, tree[j].tip, tree[j].dyn} \cap DOMAIN r.objs = {}
                   /\ \E d \in OpsOf(r.log, "detach") :
                          /\ r.log[d].item = tree[j].control
                          /\ \A e \in OpsOf(r.log, "delete") :
                                 r.log[e].item = tree[j].control => e < d

\* C9 witness: a remove has just detached an entry and its child after
\* deleting generated objects.
RemoveTearsDownSubtreeWitness ==
    /\ error = ""
    /\ Cardinality(OpsOf(log, "detach")) >= 2
    /\ OpsOf(log, "delete") # {}

\* C10: a simulation node exists only when both joints of its segment
\* exist. Every entry that holds a simulation node reference has a live
\* joint of its own and a live end joint: its tip joint, or the joint of its
\* first child.
SimulationNodeHasBothJoints ==
    \A i \in Items :
        HasRef(tree[i].dyn) =>
            /\ tree[i].joint \in DOMAIN objs
            /\ \/ tree[i].tip \in DOMAIN objs
               \/ /\ Children(tree, i) # <<>>
                  /\ tree[Children(tree, i)[1]].joint \in DOMAIN objs

\* C11: in every reachable state every entry below another entry that holds
\* a generated joint has a parent entry that holds a generated joint too, and
\* in the scene the child's joint is parented under the parent entry's
\* joint.
ChildJointUnderParentJoint ==
    \A i \in Items :
        (tree[i].parent # 0 /\ HasJoint(tree[i])) =>
            /\ HasJoint(tree[tree[i].parent])
            /\ tree[i].joint \in DOMAIN objs
            /\ tree[tree[i].parent].joint \in DOMAIN objs
            /\ objs[tree[i].joint].parent = tree[tree[i].parent].joint

\* C11 witness: a build has just created the joint of a child entry.
ChildJointUnderParentJointWitness ==
    /\ simulate
    /\ \E k \in OpsOf(log, "create") : log[k].kind = "joint"
    /\ \E i \in Items : tree[i].parent # 0 /\ HasJoint(tree[i])

\* The positions, in traversal order, of the entries whose control the scene
\* no longer holds.
Unresolvable ==
    LET items == walkTreeWidgetItems(tree, <<>>)
    IN  {k \in 1..Len(items) : ResolveControl(tree[items[k]].control) = NoRef}

\* C12 as stated: when a tracked control cannot be resolved, addDynamics
\* aborts with an error report and no object that build generated is in the
\* scene or referenced by an entry afterwards.
BuildAbortLeavesNoObject ==
    Unresolvable # {} =>
        LET r == addDynamics(World)
        IN  /\ r.status = "abort"
            /\ OpsOf(r.log, "error") # {}
            /\ DOMAIN r.objs \subseteq DOMAIN objs
            /\ Referenced(r.tree) \subseteq Referenced(tree)

\* C12 as amended: when a tracked control cannot be resolved, addDynamics
\* aborts with an error report; the objects that build generated are joints
\* only, each referenced by a tree entry and left in the scene, and no tip
\* joint and no simulation node is generated.
BuildAbortLeavesOnlyJoints ==
    Unresolvable # {} =>
        LET r == addDynamics(World)
        IN  /\ r.status = "abort"
            /\ OpsOf(r.log, "error") # {}
            /\ \A x \in DOMAIN r.objs \ DOMAIN objs :
                   /\ r.objs[x].kind = "joint"
                   /\ \E i \in Items : r.tree[i].joint = x /\ tree[i].joint = NoRef
            /\ \A e \in OpsOf(r.log, "create") : r.log[e].kind = "joint"
            /\ Cardinality(OpsOf(r.log, "create"))
                   = Cardinality(DOMAIN r.objs \ DOMAIN objs)

\* C12 witness: a build has just aborted and the scene holds a joint it
\* generated, and no tip joint and no simulation node.
BuildAbortLeavesOnlyJointsWitness ==
    /\ error = "abort"
    /\ \E x \in DOMAIN objs : objs[x].kind = "joint"
    /\ \A x \in DOMAIN objs : objs[x].kind = "joint"
    /\ \E i \in Items : tree[i].joint \in DOMAIN objs

\* C13: when the control of the k-th entry in traversal order is the first
\* that cannot be resolved, addDynamics logs the error once and aborts,
\* deletes nothing, leaves a live joint on every entry visited before the
\* k-th (the joint it held, or a new one), leaves the joint reference of the
\* k-th and every later entry as it was, and gives no entry a tip joint or a
\* simulation node.
BuildAbortKeepsEarlierJoints ==
    Unresolvable # {} =>
        LET items == walkTreeWidgetItems(tree, <<>>)
            k == CHOOSE x \in Unresolvable : \A y \in Unresolvable : x <= y
            r == addDynamics(World)
        IN  /\ r.status = "abort"
            /\ Cardinality(OpsOf(r.log, "error")) = 1
            /\ \A e \in OpsOf(r.log, "error") : r.log[e].item = tree[items[k]].control
            /\ OpsOf(r.log, "delete") = {}
            /\ DOMAIN objs \subseteq DOMAIN r.objs
            /\ \A j \in 1..(k - 1) :
                   /\ HasJoint(r.tree[items[j]])
                   /\ r.tree[items[j]].joint \in DOMAIN r.objs
                   /\ HasJoint(tree[items[j]]) => r.tree[items[j]].joint = tree[items[j]].joint
            /\ \A j \in k..Len(items) : r.tree[items[j]].joint = tree[items[j]].joint
            /\ \A i \in Items : r.tree[i].tip = tree[i].tip /\ r.tree[i].dyn = tree[i].dyn
            /\ \A x \in DOMAIN r.objs \ DOMAIN objs : r.objs[x].kind = "joint"

\* C13 witness: a build has just created the joint of the first entry and
\* then aborted on the second, which holds no joint.
BuildAbortKeepsEarlierJointsWitness ==
    /\ error = "abort"
    /\ Len(log) = 2
    /\ log[1].op = "create" /\ log[1].kind = "joint"
    /\ log[2].op = "error"
    /\ \E i \in Items : tree[i].control = log[2].item /\ ~HasJoint(tree[i])
    /\ \E i \in Items : tree[i].control = log[1].item /\ tree[i].joint \in DOMAIN objs

\* The items walkTreeWidgetItems starts from, and the items under them.
WalkRoots == IF walkArgs = <<>> THEN Children(tree, 0) ELSE walkArgs

WalkEntries == ItemDescendants(tree, Range(WalkRoots))

\* C14: in the order walkTreeWidgetItems yields, over the whole forest or
\* over given root items, every entry of the walked subtrees appears exactly
\* once and every parent entry is yielded before each of its children.
WalkParentsFirst ==
    yielded # <<>> =>
        /\ Range(yielded) = WalkEntries
        /\ Len(yielded) = Cardinality(WalkEntries)
        /\ \A k \in 1..Len(yielded) :
               tree[yielded[k]].parent \in WalkEntries =>
                   \E j \in 1..(k - 1) : yielded[j] = tree[yielded[k]].parent

\* C14 witness: a walk from two given root items has yielded a child entry.
WalkParentsFirstWitness ==
    /\ Len(walkArgs) = 2
    /\ Len(yielded) >= 3
    /\ \E k \in 1..Len(yielded) : tree[yielded[k]].parent # 0

RECURSIVE Depth(_, _)
Depth(t, i) == IF t[i].parent = 0 THEN 0 ELSE 1 + Depth(t, t[i].parent)

RECURSIVE ChildrenOfEach(_, _)
ChildrenOfEach(t, items) ==
    IF items = <<>> THEN <<>>
    ELSE Children(t, Head(items)) \o ChildrenOfEach(t, Tail(items))

\* The reference breadth-first order: a level, then the level below it.
RECURSIVE BreadthFirst(_, _)
BreadthFirst(t, level) ==
    IF level = <<>> THEN <<>> ELSE level \o BreadthFirst(t, ChildrenOfEach(t, level))

\* The reference depth-first pre-order: an item, its subtree, its siblings.
RECURSIVE DepthFirst(_, _)
DepthFirst(t, items) ==
    IF items = <<>> THEN <<>>
    ELSE <<Head(items)>> \o DepthFirst(t, Children(t, Head(items)))
                         \o DepthFirst(t, Tail(items))

\* C15 as stated: the walk over a forest is breadth-first: every entry at
\* depth d is yielded before any entry at depth d + 1, and the order is that
\* of the reference breadth-first traversal from the top-level entries.
WalkBreadthFirst ==
    (yielded # <<>> /\ walkArgs = <<>>) =>
        /\ yielded = BreadthFirst(tree, Children(tree, 0))
        /\ \A j \in 1..Len(yielded), k \in 1..Len(yielded) :
               j < k => Depth(tree, yielded[j]) <= Depth(tree, yielded[k])

\* C15 as amended: the walk is depth-first, in pre-order: every entry is
\* followed by the whole subtree under it, its children in order, before the
\* next of its siblings, as in the reference depth-first traversal from the
\* root items in order.
WalkDepthFirst ==
    yielded # <<>> => yielded = DepthFirst(tree, WalkRoots)

\* C15 witness: a walk over a whole forest has yielded an entry of depth 1
\* before a top-level entry.
WalkDepthFirstWitness ==
    /\ walkArgs = <<>>
    /\ \E j \in 1..Len(yielded), k \in 1..Len(yielded) :
           j < k /\ Depth(tree, yielded[j]) > Depth(tree, yielded[k])

\* The simulation nodes the tree references, in the scene.
SimulationNodes == {tree[i].dyn : i \in LiveDynamics}

\* The values an attribute has over the simulation nodes.
ValuesOf(attribute) == {GetAttr(objs, node, attribute) : node \in SimulationNodes}

\* C16: pull never silently picks a value. With at least one simulation
\* node, pullSimulationProperties leaves every spin box showing the common
\* value when all nodes hold the same value of its attribute and the text
\* 'Mixed Values' otherwise, and the check box checked or unchecked as the
\* common value says and partially checked otherwise; with no simulation
\* node it changes no widget.
PullShowsCommonOrMixed ==
    LET r == pullSimulationProperties(World)
    IN  /\ SimulationNodes = {} => r.widgets = widgets
        /\ SimulationNodes # {} =>
              \A k \in 1..Len(overlapPropertyWidgets) :
                  LET p == overlapPropertyWidgets[k]
                      shown == r.widgets[p.whatsThis]
                      values == ValuesOf(p.whatsThis)
                  IN  IF Cardinality(values) = 1
                      THEN \A v \in values :
                              IF IsCheckBox(p) THEN shown.value = (IF v THEN 2 ELSE 0)
                              ELSE shown.value = v /\ ~shown.mixed
                      ELSE IF IsCheckBox(p) THEN shown.value = 1
                      ELSE shown.mixed

\* C16 for the common values each spin box can hold.
PullShowsCommonOrMixedInRange ==
    LET r == pullSimulationProperties(World)
    IN  /\ SimulationNodes = {} => r.widgets = widgets
        /\ SimulationNodes # {} =>
              \A k \in 1..Len(overlapPropertyWidgets) :
                  LET p == overlapPropertyWidgets[k]
                      shown == r.widgets[p.whatsThis]
                      values == ValuesOf(p.whatsThis)
                  IN  IF Cardinality(values) = 1
                      THEN \A v \in values :
                              IF IsCheckBox(p) THEN shown.value = (IF v THEN 2 ELSE 0)
                              ELSE /\ shown.value = Bound(v, p.minimum, p.maximum)
                                   /\ ~shown.mixed
                      ELSE IF IsCheckBox(p) THEN shown.value = 1
                      ELSE shown.mixed

\* The calls of pushSimulationProperties: with no widget, with one, and with
\* a spin box and the check box.
PushCalls ==
    {<<>>} \cup {<<a>> : a \in Attributes}
           \cup {<<a, "enableAngleLimit">> : a \in Attributes \ {"enableAngleLimit"}}

\* C17: push is a fan-out write. pushSimulationProperties with given
\* property widgets leaves, on every simulation node the tree references,
\* the attribute named by each given widget at the widget's current value
\* and every other attribute as it was; with no widget given it does so for
\* all twelve property widgets. Nothing else changes.
PushFansOut ==
    \A pushed \in PushCalls :
        LET r == pushSimulationProperties(World, pushed)
            names == IF pushed = <<>> THEN Attributes ELSE Range(pushed)
        IN  /\ r.status = "ok"
            /\ r.tree = tree
            /\ r.widgets = widgets
            /\ DOMAIN r.objs = DOMAIN objs
            /\ \A x \in DOMAIN objs \ SimulationNodes : r.objs[x] = objs[x]
            /\ \A node \in SimulationNodes : \A a \in Attributes :
                   GetAttr(r.objs, node, a)
                       = IF a \in names
                         THEN (IF a = "enableAngleLimit" THEN widgets[a].value # 0
                               ELSE widgets[a].value)
                         ELSE GetAttr(objs, node, a)
            /\ Cardinality(Attributes) = 12

\* C17 witness: the user has set a spin box away from its first value and
\* the two simulation nodes of the tree hold the new value.
PushFansOutWitness ==
    /\ Cardinality(SimulationNodes) >= 2
    /\ \E a \in Attributes \ {"enableAngleLimit"} :
          /\ widgets[a].value # InitialWidgets[a].value
          /\ \A node \in SimulationNodes : GetAttr(objs, node, a) = widgets[a].value

\* C18: the writeback applies each cached matrix as translation only or as
\* rotation only. Every setWorldMatrix of a writeback skips exactly one of
\* translation and rotation, the same one for every control and frame of
\* that writeback, and always skips scale.
BakeWritesOneChannel ==
    \A k \in 1..Len(written) :
        /\ written[k][4] # written[k][5]
        /\ written[k][6]
        /\ written[k][4] = written[1][4]
        /\ written[k][5] = written[1][5]

\* C18 witness: a writeback has written rotation only, to two controls.
BakeWritesOneChannelWitness ==
    /\ pc = "Finish"
    /\ Cardinality({written[k][1] : k \in 1..Len(written)}) >= 2
    /\ \A k \in 1..Len(written) : written[k][4] /\ ~written[k][5]

\* C19: the bake action with no active rig leaves the state unchanged. When
\* bakeDynamics has returned with its warning, the rest of the bake action
\* leaves the tree with the same entries and the simulate button and the
\* scene objects as they were.
BakeWithoutRigChangesNothing ==
    [][(pc = "Finish" /\ warning = "Bake Dynamics") =>
          (tree' = tree /\ simulate' = simulate /\ objs' = objs)]_vars

\* C20: append with no tree item or more than one selected, and remove with
\* no tree item selected, each show a warning and leave the tree, the
\* references of every entry, the scene objects and the simulate button as
\* they were.
AppendRemoveRejected ==
    /\ \A selection \in Selections :
           \A selectedItems \in {q \in DistinctSeqs(Items) : Len(q) # 1} :
               LET r == on_appendSelectionPushButton_clicked(World, selection, selectedItems)
               IN  /\ r.warning # ""
                   /\ r.status = "ok"
                   /\ r.tree = tree
                   /\ r.objs = objs
                   /\ r.simulate = simulate
    /\ LET r == on_removeSelectionPushButton_clicked(World, <<>>)
       IN  /\ r.warning # ""
           /\ r.status = "ok"
           /\ r.tree = tree
           /\ r.objs = objs
           /\ r.simulate = simulate

\* C20 witness: a remove with nothing selected has just shown its warning
\* while the tree holds a rig and a control is left to append, and an append
\* with nothing selected shows its warning there too.
AppendRemoveRejectedWitness ==
    /\ warning = "Remove Selection"
    /\ simulate
    /\ LiveDynamics # {}
    /\ \E control \in Controls :
          /\ ~Tracked(control)
          /\ on_appendSelectionPushButton_clicked(World, <<control>>, <<>>).warning
                 = "Append Selection"

\* The sampling loops of bakeDynamics over the frame 0 alone.
SampleFrame ==
    SampleEach([cache |-> EmptyCache, sampled |-> <<>>, status |-> "ok"], World,
               Nested(<<0>>, walkTreeWidgetItems(tree, <<>>)))

\* C21: a reference that no longer resolves is "entry absent". With
\* controls, joints, tip joints and simulation nodes deleted out of band or
\* never created, teardown over any entries, property push and pull, the
\* sampling of a bake that passed its precondition and the writeback of a
\* bake all end without raising.
DanglingReferenceIsEntryAbsent ==
    /\ \A S \in SUBSET Items : \A p \in Perms(S) : removeDynamics(World, p).status = "ok"
    /\ pushSimulationProperties(World, <<>>).status = "ok"
    /\ pullSimulationProperties(World).status = "ok"
    /\ (pc = "Idle" /\ Len(iterBoneDynamics(World)) > 0) => SampleFrame.status = "ok"
    /\ pc = "Writeback" =>
           \A bakeOption \in BakeOptions :
               WriteEach([cache |-> cache, written |-> <<>>, status |-> "ok"],
                         Nested(InclusiveRange(startTime, endTime, step), cache.order),
                         ~positionRadioButtonIsChecked(bakeOption),
                         ~rotationRadioButtonIsChecked(bakeOption)).status = "ok"

\* C21 for teardown, push and pull alone.
DanglingReferenceTeardownPushPull ==
    /\ \A S \in SUBSET Items : \A p \in Perms(S) : removeDynamics(World, p).status = "ok"
    /\ pushSimulationProperties(World, <<>>).status = "ok"
    /\ pullSimulationProperties(World).status = "ok"

\* A callback has left the window and the scene as they were.
Untouched(r) ==
    /\ r.tree = tree
    /\ r.simulate = simulate
    /\ r.selection = _selection
    /\ r.widgets = widgets
    /\ r.ground = _ground
    /\ r.groundChecked = groundChecked
    /\ r.objs = objs
    /\ r.status = "ok"
    /\ OpsOf(r.log, "delete") = {}

\* C22: the host callbacks are guarded by a liveness check. Whenever the
\* scene-change or the selection-change callback fires, with any selection
\* in the scene, the handler of the window runs if a window instance exists
\* and is valid (the tracker takes the selection; a scene change also
\* unchecks the simulate button and empties the tree), and otherwise the
\* callback returns with the tree, the buttons, the widgets, the tracker, the
\* ground reference and the scene as they were.
CallbacksGuarded ==
    \A sceneSelection \in Selections :
        LET a == onSceneChanged(World, instance, sceneSelection)
            b == onSelectionChanged(World, instance, sceneSelection)
        IN  IF instance = "Valid"
            THEN /\ a.selection = sceneSelection /\ a.tree = <<>> /\ ~a.simulate
                 /\ b.selection = sceneSelection
                 /\ b.tree = tree /\ b.simulate = simulate /\ b.objs = objs
            ELSE Untouched(a) /\ Untouched(b)

\* C22 witness: the scene-change callback has just fired on a window that
\* was closed while it simulated a tree, and has only logged its warning:
\* the tree and the checked simulate button are still there.
CallbacksGuardedWitness ==
    /\ instance = "Invalid"
    /\ log = <<Event("warning", "sceneChanged", NoRef)>>
    /\ tree # <<>>
    /\ simulate

\* The ground plane the window references is in the scene.
GroundExists == _ground # NoRef /\ _ground \in DOMAIN objs

\* The simulation nodes in the scene.
DynamicsInScene(o) == {x \in DOMAIN o : o[x].kind = "dyn"}

\* C23: while the ground plane exists, the plane collider of every
\* simulation node in the scene is fed by it, whether the node was there
\* when the ground was made or was built later; and removing the ground on
\* request (unchecking the ground check box) leaves no ground object in the
\* scene, no ground reference in the window and no plane collider element on
\* any simulation node.
GroundOnEveryNode ==
    /\ GroundExists => \A node \in DynamicsInScene(objs) : objs[node].plane = _ground
    /\ LET r == on_groundCheckBox_clicked([World EXCEPT !.groundChecked = FALSE], FALSE)
       IN  /\ r.ground = NoRef
           /\ \A x \in DOMAIN r.objs : r.objs[x].kind # "ground"
           /\ \A node \in DynamicsInScene(r.objs) : r.objs[node].plane = NoRef
           /\ DynamicsInScene(r.objs) = DynamicsInScene(objs)
    /\ ~GroundExists => \A node \in DynamicsInScene(objs) : objs[node].plane = NoRef

\* C23 witness: with the ground in the scene a build has just created a
\* simulation node, the tree references two, one of them made before the
\* ground and one after, and both are fed by the ground.
GroundOnEveryNodeWitness ==
    /\ GroundExists
    /\ Cardinality(SimulationNodes) >= 2
    /\ \E node \in SimulationNodes : node < _ground
    /\ \E node \in SimulationNodes : node > _ground
    /\ \E k \in OpsOf(log, "create") : log[k].kind = "dyn"
    /\ \A node \in SimulationNodes : objs[node].plane = _ground

\* No ground plane is in the scene and the window references none.
NoGround(r) == r.ground = NoRef /\ \A x \in DOMAIN r.objs : r.objs[x].kind # "ground"

\* The ground plane and the reference to it are as they were.
SameGround(r) ==
    /\ r.ground = _ground
    /\ {x \in DOMAIN r.objs : r.objs[x].kind = "ground"}
           = {x \in DOMAIN objs : objs[x].kind = "ground"}

\* The remove action on the only top-level entry, when there is one.
RemoveLastEntry ==
    IF Len(Children(tree, 0)) = 1
    THEN on_removeSelectionPushButton_clicked(World, <<Children(tree, 0)[1]>>)
    ELSE on_clearSelectionPushButton_clicked(World)

TeardownRank(col) == IF col = "dyn" THEN 1 ELSE IF col = "tip" THEN 2 ELSE 3

\* C25: within one entry, teardown deletes the simulation node, then the
\* tip joint, then the joint, each only if the entry references it and it
\* is still in the scene; the constraints of a joint are removed right
\* before the joint is deleted; and afterwards the three references of the
\* entry are cleared, also where the object could no longer be resolved,
\* while the references of the other entries stay.
TeardownOrderWithinEntry ==
    \A i \in Items :
        LET r == removeDynamics(World, <<i>>)
            deletes == OpsOf(r.log, "delete")
        IN  /\ r.status = "ok"
            /\ r.tree[i].dyn = NoRef /\ r.tree[i].tip = NoRef /\ r.tree[i].joint = NoRef
            /\ \A j \in Items \ {i} : r.tree[j] = tree[j]
            /\ \A k \in 1..Len(r.log) : r.log[k].item = tree[i].control
            /\ \A a \in deletes, b \in deletes :
                   a < b => TeardownRank(r.log[a].kind) < TeardownRank(r.log[b].kind)
            /\ \A a \in deletes : tree[i][r.log[a].kind] \in DOMAIN objs
            /\ \A col \in {"dyn", "tip", "joint"} :
                   tree[i][col] \in DOMAIN objs => tree[i][col] \notin DOMAIN r.objs
            /\ \A a \in deletes :
                   r.log[a].kind = "joint" =>
                       a > 1 /\ r.log[a - 1] = Event("removeConstraints", "joint", tree[i].control)
            /\ \A a \in OpsOf(r.log, "removeConstraints") :
                   a < Len(r.log) /\ r.log[a + 1] = Event("delete", "joint", tree[i].control)

\* C25 witness: the simulate button has just been unchecked on a tree of
\* one leaf entry whose tip joint had been deleted in the host: the node was
\* deleted, then the constraints of the joint removed and the joint
\* deleted, and the entry holds no reference.
TeardownOrderWithinEntryWitness ==
    /\ Len(tree) = 1
    /\ NoRig(tree)
    /\ log = <<Event("delete", "dyn", tree[1].control),
               Event("removeConstraints", "joint", tree[1].control),
               Event("delete", "joint", tree[1].control)>>

\* ------------------------------------------------------------------ C26
\* One name dialog answered with a text, the warning (if any) dismissed.
SingleAnswers == {<<a>> : a \in LastAnswers}

Writes(r) == {e \in Range(r.log) : e.op = "write"}

\* What the create button does with one answer: a file is written exactly
\* when the dialog was accepted with a name whose slug is not empty and is
\* no preset; then one preset of that name with the values of dumpPreset is
\* added and the others are as before; otherwise files and presets are as
\* before.
CreatePresetOutcome ==
    \A answers \in SingleAnswers :
        LET presetName == slugify(answers[1].text)
            accepted == /\ answers[1].response
                        /\ presetName # ""
                        /\ presetName \notin DOMAIN _presets
            r == on_createPresetPushButton_clicked(World, answers)
        IN  /\ (Writes(r) # {} \/ r.directory # directory) <=> accepted
            /\ ~accepted => /\ r.directory = directory
                            /\ r.presets = _presets
            /\ accepted =>
                  /\ DOMAIN r.directory = DOMAIN directory \cup {presetName}
                  /\ presetName \notin DOMAIN directory
                  /\ r.directory[presetName].preset = dumpPreset(widgets)
                  /\ \A n \in DOMAIN directory : r.directory[n] = directory[n]
                  /\ r.presets = [n \in DOMAIN r.directory |-> r.directory[n].preset]

\* C26: preset creation with a blank or duplicate name is rejected without
\* writing a file; a file is written if and only if the slugified name is
\* non-empty and is not the name of an existing preset; a rejected creation
\* leaves the presets and their contents unchanged, an accepted one adds
\* exactly one preset with that name and the five current values.
CreatePresetWritesIffNameIsNew == CreatePresetOutcome

\* The same on a file system that tells "a" from "A".
CreatePresetWritesIffNameIsNewCaseSensitive == caseSensitive => CreatePresetOutcome

\* ------------------------------------------------------------------ C27
DefaultPreset == DefaultOnly["Default"].preset

\* The delete button removes the file of the current preset, and only when
\* that is not Default, the file is writable and the user confirmed.
DeleteOutcome ==
    \A response \in BOOLEAN :
        LET r == on_deletePresetPushButton_clicked(World, response)
            removed == DOMAIN directory \ DOMAIN r.directory
        IN  IF removed # {}
            THEN /\ currentText # "Default"
                 /\ ~directory[currentText].readOnly
                 /\ response
                 /\ r.directory = [n \in DOMAIN directory \ {currentText} |-> directory[n]]
            ELSE /\ r.directory = directory
                 /\ r.presets = _presets

\* C27: after any sequence of preset create, select and delete actions the
\* preset named Default exists with the contents it had; the delete button
\* removes a file only when the current preset is not Default, its file is
\* not read-only and the user confirmed, and leaves the store as it was
\* otherwise.
DefaultPresetProtected ==
    /\ "Default" \in DOMAIN directory
    /\ directory["Default"].preset = DefaultPreset
    /\ "Default" \in DOMAIN _presets
    /\ _presets["Default"] = DefaultPreset
    /\ DeleteOutcome

\* The same on a file system that tells "a" from "A".
DefaultPresetProtectedCaseSensitive == caseSensitive => DefaultPresetProtected

\* The delete button alone, on either file system.
DeleteRemovesOnlyWhenAllowed == DeleteOutcome

\* ------------------------------------------------------------------ C28
IsNode(o, ref, kind) == ref \in DOMAIN o /\ o[ref].kind = kind

\* C28: after a build that completes on a tree with no generated objects,
\* every entry holds a joint and a simulation node; an entry holds a tip
\* joint exactly when it is a leaf; the simulation node of a leaf runs from
\* its joint to its tip joint, that of another entry from its joint to the
\* joint of its first child; one simulation node is created per entry.
BuildShape ==
    LET r == addDynamics(World)
        n == Len(tree)
        nodes == {x \in DOMAIN r.objs : r.objs[x].kind = "dyn"}
    IN  (NoRig(tree) /\ objs = <<>> /\ r.status = "ok") =>
          /\ Len(r.tree) = n
          /\ \A i \in 1..n :
                LET item == r.tree[i]
                    children == Children(tree, i)
                    isLeaf == children = <<>>
                IN  /\ IsNode(r.objs, item.joint, "joint")
                    /\ IsNode(r.objs, item.dyn, "dyn")
                    /\ (item.tip # NoRef) <=> isLeaf
                    /\ isLeaf => IsNode(r.objs, item.tip, "tip")
                    /\ r.objs[item.dyn].start = item.joint
                    /\ r.objs[item.dyn].end =
                          IF isLeaf THEN item.tip ELSE r.tree[children[1]].joint
          /\ Cardinality(nodes) = n
          /\ nodes = {r.tree[i].dyn : i \in 1..n}
          /\ \A i \in 1..n :
                Cardinality({k \in 1..Len(r.log) :
                                r.log[k] = Event("create", "dyn", tree[i].control)}) = 1

\* C28 witness: the simulate button has just built the rig of a tree in
\* which an entry has two children and a grandchild: four simulation nodes,
\* three of them on leaves or on the only child's parent.
BuildShapeWitness ==
    /\ simulate
    /\ error = ""
    /\ Len(tree) = 4
    /\ \E i \in 1..Len(tree) : Len(Children(tree, i)) = 2
    /\ \E i \in 1..Len(tree) : tree[i].parent # 0 /\ Children(tree, i) # <<>>
    /\ Cardinality({e \in Range(log) : e.op = "create" /\ e.kind = "dyn"}) = 4
    /\ \A i \in 1..Len(tree) : IsNode(objs, tree[i].dyn, "dyn")

\* ------------------------------------------------------------------ C29
\* C29: in every state reached by add, append, remove, clear and the
\* simulate button in which a simulation node exists, every entry of the
\* tree holds the reference of a generated joint, so that the sampling loop
\* of the bake resolves a joint for every entry it visits.
EveryEntryHasJoint ==
    (\E i \in 1..Len(tree) : IsNode(objs, tree[i].dyn, "dyn")) =>
        \A i \in 1..Len(tree) : IsNode(objs, tree[i].joint, "joint")

\* ------------------------------------------------------------------ C30
\* C30: generated objects exist only while simulating. In every state
\* reached by add, append, remove, clear, the simulate button, the bake and
\* the scene-change callback, when the simulate button is unchecked no
\* entry of the tree holds a joint, tip joint or simulation node reference.
NoRigUnlessSimulating == ~simulate => NoRig(tree)

\* C30 witness: a rig was built, and the button is unchecked again with
\* entries in the tree, none of which holds a reference.
NoRigUnlessSimulatingWitness ==
    /\ ~simulate
    /\ tree # <<>>
    /\ NoRig(tree)
    /\ OpsOf(log, "delete") # {}

\* ------------------------------------------------------------------ C31
\* C31: the simulate button is never left checked over an empty tree. When
\* no handler is running, a checked button means the tree has a top-level
\* entry; and checking the button over an empty tree creates nothing and
\* leaves the button unchecked.
NeverSimulatingEmptyTree ==
    /\ (pc = "Idle" /\ simulate) => Children(tree, 0) # <<>>
    /\ (pc = "Idle" /\ tree = <<>>) =>
          LET r == setChecked(World, TRUE)
          IN  /\ ~r.simulate
              /\ r.tree = tree
              /\ r.objs = objs
              /\ OpsOf(r.log, "create") = {}

\* C31 witness: the last entry was removed while the rig stood: the rig was
\* deleted, the entry detached, and the button is unchecked.
NeverSimulatingEmptyTreeWitness ==
    /\ pc = "Idle"
    /\ tree = <<>>
    /\ ~simulate
    /\ OpsOf(log, "delete") # {}
    /\ OpsOf(log, "detach") # {}

\* ------------------------------------------------------------------ C32
\* C32: with no edit made in the host, the simulation nodes never disagree.
\* After every build, widget edit and preset load, each property has on
\* every simulation node of the tree the value of its widget.
NodesAgreeWithWidgets ==
    \A node \in Range(iterBoneDynamics(World)) :
        \A a \in Attributes :
            GetAttr(objs, node, a) = WidgetValue(widgets, a)

\* C32 witness: two simulation nodes stand, a spin box was edited, and the
\* second preset was loaded: nodes and widgets hold its values.
NodesAgreeWithWidgetsWitness ==
    /\ simulate
    /\ Len(iterBoneDynamics(World)) = 2
    /\ edits = 1
    /\ currentText = "Soft"
    /\ dumpPreset(widgets) = _presets["Soft"]
    /\ _presets["Soft"] # _presets["Default"]
    /\ NodesAgreeWithWidgets

\* ------------------------------------------------------------------ C33
\* C33: no control is tracked twice. After any sequence of add, append,
\* remove and clear with scene selections of distinct controls, no two
\* entries of the tree name the same control.
NoControlTrackedTwice ==
    \A i, j \in 1..Len(tree) : tree[i].control = tree[j].control => i = j

\* C33 witness: every control is tracked, one below the other, and an add
\* of a tracked control has just been turned down.
NoControlTrackedTwiceWitness ==
    /\ warning = "Add Selection"
    /\ {tree[i].control : i \in 1..Len(tree)} = Controls
    /\ \E i \in 1..Len(tree) : tree[i].parent # 0
    /\ NoControlTrackedTwice

\* ------------------------------------------------------------------ C34
RigObjects(o) == {x \in DOMAIN o : o[x].kind \in {"joint", "tip", "dyn"}}

\* C34: when the bake button was pressed, the bake passed its precondition
\* and ran to its end, the slot leaves the tree empty, the simulate button
\* unchecked and no generated joint, tip joint or simulation node in the
\* scene.
BakeLeavesEmptyTree ==
    [][(pc = "Finish" /\ pc' = "Idle" /\ warning # "Bake Dynamics") =>
          /\ tree' = <<>>
          /\ ~simulate'
          /\ RigObjects(objs') = {}
          /\ error' = ""]_vars

\* C34 witness: the slot of the bake button has ended after a bake that
\* deleted the rig: the tree was cleared with no entry detached one by one.
BakeLeavesEmptyTreeWitness ==
    /\ pc = "Idle"
    /\ tree = <<>>
    /\ ~simulate
    /\ RigObjects(objs) = {}
    /\ OpsOf(log, "delete") # {}
    /\ OpsOf(log, "detach") = {}

\* ------------------------------------------------------------------ C35
\* C35: the wiring of follow rest pose matches the check box. In every
\* reachable state the simulation node of each entry has the rotation of
\* the entry's control connected to its rotationOffset when the check box
\* is checked and nothing connected to it when the check box is unchecked,
\* whether the node was built before or after the check box was toggled.
FollowRestPoseMatchesCheckBox ==
    \A i \in 1..Len(tree) :
        IsNode(objs, tree[i].dyn, "dyn") =>
            objs[tree[i].dyn].rotationOffset =
                IF followRestPose THEN tree[i].control ELSE NoRef

\* C35 witness: the check box is unchecked while two simulation nodes of
\* live controls stand, and neither has a rotation offset connected.
FollowRestPoseMatchesCheckBoxWitness ==
    /\ ~followRestPose
    /\ Len(tree) = 2
    /\ \A i \in 1..2 : /\ IsNode(objs, tree[i].dyn, "dyn")
                        /\ ResolveControl(tree[i].control) # NoRef
                        /\ objs[tree[i].dyn].rotationOffset = NoRef

\* ------------------------------------------------------------------ C36
\* The tree t2 is the tree t with the controls of selection added as one
\* chain under parent (0: the top level) and nothing else touched.
AddedAsChain(t, t2, selection, parent) ==
    LET n == Len(selection)
        first == Len(t) + 1
    IN  /\ Len(t2) = Len(t) + n
        /\ SubSeq(t2, 1, Len(t)) = t
        /\ \A k \in 1..n :
              /\ t2[Len(t) + k].control = selection[k]
              /\ t2[Len(t) + k].parent = IF k = 1 THEN parent ELSE Len(t) + k - 1
        /\ n >= 1 =>
              /\ Children(t2, parent) = Append(Children(t, parent), first)
              /\ \A k \in 2..n : Children(t2, Len(t) + k - 1) = <<Len(t) + k>>

\* C36: an accepted add of the selected controls adds exactly one entry
\* for each, as one chain in selection order: the first is the last
\* top-level entry (for append, the last child of the selected item), each
\* later one is the only child of the entry made just before it, and the
\* entries the tree already had stay as they were; with an empty selection
\* the tree is unchanged.
AddBuildsOneChain ==
    \A selection \in Selections :
        ~hasController(tree, selection) =>
            /\ AddedAsChain(tree,
                            on_addSelectionPushButton_clicked(World, selection).tree,
                            selection, 0)
            /\ \A i \in 1..Len(tree) :
                  AddedAsChain(tree,
                               on_appendSelectionPushButton_clicked(World, selection, <<i>>).tree,
                               selection, i)
            /\ selection = <<>> =>
                  /\ on_addSelectionPushButton_clicked(World, selection).tree = tree
                  /\ \A i \in 1..Len(tree) :
                        on_appendSelectionPushButton_clicked(World, selection, <<i>>).tree = tree

\* C36 witness: one entry stands and another control of the scene is
\* selected; add makes it the last top-level entry and append makes it the
\* child of the entry that stands.
AddBuildsOneChainWitness ==
    /\ Len(tree) = 1
    /\ \E selection \in Selections :
          /\ Len(selection) = 1
          /\ ~hasController(tree, selection)
          /\ on_addSelectionPushButton_clicked(World, selection).tree[2].parent = 0
          /\ on_appendSelectionPushButton_clicked(World, selection, <<1>>).tree[2].parent = 1

\* ------------------------------------------------------------------ C37
\* The window after the host dispatched a scene change to it: the new scene
\* holds none of the generated objects and has nothing selected.
AfterSceneChange == onSceneChanged([World EXCEPT !.objs = <<>>], "Valid", <<>>)

\* C37: after a scene-change callback is dispatched to a live window the
\* window holds no reference to an object of the previous scene: the tree
\* is empty, the simulate button is unchecked and the reference to the
\* ground collider is cleared.
SceneChangeDropsReferences ==
    /\ AfterSceneChange.tree = <<>>
    /\ ~AfterSceneChange.simulate
    /\ AfterSceneChange.ground = NoRef

\* The part of C37 on the tree and the simulate button.
SceneChangeDropsRig ==
    /\ AfterSceneChange.tree = <<>>
    /\ ~AfterSceneChange.simulate
    /\ AfterSceneChange.status = "ok"

\* Checking the simulate button still builds the rig while the window holds
\* a ground reference that no longer resolves and the ground check box is
\* checked. Refuted: createBoneDynamics raises on the dead ground.
StaleGroundKeepsBuilding ==
    (/\ _ground # NoRef
     /\ Resolve(objs, _ground) = NoRef
     /\ groundChecked
     /\ ~simulate
     /\ tree # <<>>) => setChecked(World, TRUE).status = "ok"

\* ------------------------------------------------------------------ C38
\* C38: callback registration is balanced. After any sequence of
\* addCallbacks and removeCallbacks the host holds no callback of the
\* window or its three, the window holds the ids of exactly those, and an
\* addCallbacks after an addCallbacks registers nothing new; after
\* removeCallbacks no callback is registered, no ground plane is alive in
\* the scene and no entry holds a joint, a tip joint or a simulation node.
CallbacksBalanced ==
    /\ Cardinality(hostCallbacks) \in {0, 3}
    /\ Range(_callbackIds) = {c.id : c \in hostCallbacks}
    /\ Len(_callbackIds) = Cardinality(hostCallbacks)
    /\ LET a == addCallbacks(World)
       IN  /\ Cardinality(a.hostCallbacks) = 3
           /\ addCallbacks(a) = a
    /\ LET r == removeCallbacks(World)
       IN  /\ r.hostCallbacks = {}
           /\ r.callbackIds = <<>>
           /\ \A x \in DOMAIN r.objs : r.objs[x].kind # "ground"
           /\ NoRig(r.tree)
           /\ r.status = "ok"

\* C38 witness: the three callbacks are registered while a rig and a
\* ground plane stand, so that removeCallbacks has all of them to remove.
CallbacksBalancedWitness ==
    /\ Cardinality(hostCallbacks) = 3
    /\ LiveDynamics # {}
    /\ Resolve(objs, _ground) # NoRef

====
